---------------------------- MODULE Spec2Model ----------------------------
(***************************************************************************)
(* A model of the WOFF2 test-fixture encoder of w3c/woff2-tests:           *)
(* generators/testCaseGeneratorLib/woff.py (integer codecs, triplet,       *)
(* glyf and hmtx transforms, table directory), sfnt.py (getSFNTData) and   *)
(* defaultData.py (defaultTestData).                                       *)
(*                                                                         *)
(* Byte strings are sequences of integers 0..255.  Python integers that    *)
(* can exceed 31 bits (table lengths up to 2^35) are "wide" integers: a    *)
(* record [hi, lo] standing for hi * 65536 + lo with lo in 0..65535.       *)
(* A call that can raise returns a record [ok, val, err].                  *)
(***************************************************************************)
EXTENDS Integers, Sequences, FiniteSets, TLC

VARIABLES
    pc,                 \* position of the running call
    args,               \* the inputs of the running call
    ret,                \* what the call returned (or raised)
    glyphIndex,         \* transformGlyf: glyphs of glyf.glyphOrder done so far
    nContourStream,     \* transformGlyf: the seven streams and the bitmap
    nPointsStream,
    flagStream,
    glyphStream,
    compositeStream,
    bboxStream,
    instructionStream,
    bboxBitmap,
    font,               \* getSFNTData: the font object (head.flags is mutable)
    tableOrder,         \* getSFNTData: the tags in the order of the payload
    tableData,          \* getSFNTData: (tag, origData, transformedData) per table done
    compData,           \* getSFNTData: the stored payload
    directory,          \* defaultTestData: the WOFF table directory entries
    header,             \* defaultTestData: the WOFF header
    tableIndices,       \* getWOFFCollectionData: tag -> shared index of the font at hand
    collectionDirectory,\* getWOFFCollectionData: one entry per font done
    locaIndices,        \* getWOFFCollectionData: the loca slots under MismatchGlyfLoca
    fonts,              \* getWOFFCollectionData: the font objects of the call
    registeredIdentifiers, \* generators: the identifiers of the test cases written
    registeredTitles,   \* generators: their titles
    registeredDescriptions, \* generators: their descriptions (registeredAssertions)
    testRegistry,       \* generators: the registered test cases, in order
    files,              \* generators: the paths written
    test_results,       \* verifier: ref -> result so far
    line                \* verifier: the number of expectations handled

callVars == <<pc, args, ret>>
glyfVars == <<glyphIndex, nContourStream, nPointsStream, flagStream, glyphStream,
              compositeStream, bboxStream, instructionStream, bboxBitmap>>
sfntVars == <<font, tableOrder, tableData, compData, directory, header>>
collVars == <<tableIndices, collectionDirectory, locaIndices, fonts>>
genVars == <<registeredIdentifiers, registeredTitles, registeredDescriptions, testRegistry,
             files>>
scriptVars == <<registeredIdentifiers, registeredTitles, registeredDescriptions,
                testRegistry, files, test_results, line>>
vars == <<pc, args, ret, glyphIndex, nContourStream, nPointsStream, flagStream,
          glyphStream, compositeStream, bboxStream, instructionStream, bboxBitmap,
          font, tableOrder, tableData, compData, directory, header,
          tableIndices, collectionDirectory, locaIndices, fonts,
          registeredIdentifiers, registeredTitles, registeredDescriptions, testRegistry,
          files, test_results, line>>

-----------------------------------------------------------------------------
(* Bounds of the model. *)

\* how far around each boundary value the sampled inputs extend
Spread == 2
\* pack255UInt16 is called with every n in 0..Dense255 (and samples above)
Dense255 == 800
\* contours per glyph in the nPoints loop inputs
MaxContours == 4
\* entries per directory handed to packTestDirectory
MaxDir == 3

-----------------------------------------------------------------------------
(* Results of calls that may raise. *)

Ok(v) == [ok |-> TRUE, val |-> v, err |-> ""]
Raise(e) == [ok |-> FALSE, val |-> <<>>, err |-> e]
NoRet == [ok |-> FALSE, val |-> <<>>, err |-> "not returned"]

-----------------------------------------------------------------------------
(* Integer helpers: Python's &, |, >>, << on non-negative integers. *)

Pow2(k) == 2 ^ k

RECURSIVE BitAnd(_, _)
BitAnd(a, b) ==
    IF a = 0 \/ b = 0 THEN 0
    ELSE (a % 2) * (b % 2) + 2 * BitAnd(a \div 2, b \div 2)

RECURSIVE BitOr(_, _)
BitOr(a, b) ==
    IF a = 0 THEN b
    ELSE IF b = 0 THEN a
    ELSE (IF a % 2 = 1 \/ b % 2 = 1 THEN 1 ELSE 0) + 2 * BitOr(a \div 2, b \div 2)

Shr(a, k) == a \div Pow2(k)
Shl(a, k) == a * Pow2(k)
Abs(x) == IF x < 0 THEN -x ELSE x

RECURSIVE Flatten(_)
Flatten(ss) == IF ss = <<>> THEN <<>> ELSE Head(ss) \o Flatten(Tail(ss))

(* Wide integers. *)
Wide(h, l) == [hi |-> h, lo |-> l]
ToWide(k) == Wide(k \div 65536, k % 65536)
WideGE128(n) == n.hi > 0 \/ n.lo >= 128
\* n >> s
WideShr(n, s) ==
    IF s >= 16
    THEN LET t == n.hi \div Pow2(s - 16) IN Wide(t \div 65536, t % 65536)
    ELSE Wide(n.hi \div Pow2(s),
              (n.hi % Pow2(s)) * Pow2(16 - s) + n.lo \div Pow2(s))
\* n & 0x7f
WideAnd7f(n) == n.lo % 128

\* struct.pack(">B", v), ">H", ">h": the bytes, for a value in range
PackB(v) == <<v>>
PackH(v) == <<v \div 256, v % 256>>
Packh(v) == IF v < 0 THEN PackH(v + 65536) ELSE PackH(v)

-----------------------------------------------------------------------------
(* woff.py: UIntBase128 *)

RECURSIVE base128SizeLoop(_, _)
base128SizeLoop(n, size) ==
    IF WideGE128(n) THEN base128SizeLoop(WideShr(n, 7), size + 1) ELSE size

\* base128Size that stops at the 5 bytes of the format
base128Size_capped(n) ==
    IF base128SizeLoop(n, 1) > 5 THEN 5 ELSE base128SizeLoop(n, 1)

base128Size(n) == base128SizeLoop(n, 1)

\* packBase128 with the continuation bit on every byte
packBase128_allContinue(n, bug) ==
    LET size == base128Size(n)
        body == [k \in 1..size |->
                   BitOr(WideAnd7f(WideShr(n, 7 * (size - k))), 128)]
    IN (IF bug THEN PackB(128) ELSE <<>>) \o body

packBase128(n, bug) ==
    LET size == base128Size(n)
        body == [k \in 1..size |->
                   LET i == k - 1
                       b == WideAnd7f(WideShr(n, 7 * (size - i - 1)))
                   IN IF i < size - 1 THEN BitOr(b, 128) ELSE b]
    IN (IF bug THEN PackB(128) ELSE <<>>) \o body

-----------------------------------------------------------------------------
(* woff.py: 255UInt16.  alternate is an integer (True counts as 1). *)

\* pack255UInt16 with the first test off by one (n <= 253)
pack255UInt16_offByOne(n, alternate) ==
    IF n <= 253 THEN Ok(PackB(n))
    ELSE IF n < 506 THEN Ok(<<255, n - 253>>)
    ELSE IF n < 762 THEN
        IF alternate = 0 THEN Ok(<<254, n - 506>>)
        ELSE IF alternate = 1 \/ n > 508 THEN Ok(<<253>> \o PackH(n))
        ELSE IF alternate = 2 THEN Ok(<<255, n - 253>>)
        ELSE Raise("UnboundLocalError")
    ELSE Ok(<<253>> \o PackH(n))

pack255UInt16(n, alternate) ==
    IF n < 253 THEN Ok(PackB(n))
    ELSE IF n < 506 THEN Ok(<<255, n - 253>>)
    ELSE IF n < 762 THEN
        IF alternate = 0 THEN Ok(<<254, n - 506>>)
        ELSE IF alternate = 1 \/ n > 508 THEN Ok(<<253>> \o PackH(n))
        ELSE IF alternate = 2 THEN Ok(<<255, n - 253>>)
        ELSE Raise("UnboundLocalError")
    ELSE Ok(<<253>> \o PackH(n))

-----------------------------------------------------------------------------
(* woff.py: packTriplet.  Returns <<flags, glyphs>>, two byte strings.      *)
(* x and y are integers (int(round(x)) is x), onCurve is flags[j] & 0x01.   *)

\* the sign bits: bit 0 for x, bit 1 for y (woff.py 127-135), swapped
xySignBitsOf_swapped(x, y) ==
    (IF y > 0 THEN 1 ELSE 0) + 2 * (IF x > 0 THEN 1 ELSE 0)

xySignBitsOf(x, y) ==
    LET xSignBit == IF x > 0 THEN 1 ELSE 0
        ySignBit == IF y > 0 THEN 1 ELSE 0
    IN xSignBit + 2 * ySignBit

\* the branch of the if/elif chain taken, with the 769 test before the 65 test
tripletBranch_reordered(x, y) ==
    LET absX == Abs(x)
        absY == Abs(y)
    IN  IF x = 0 /\ absY < 1280 THEN 1
        ELSE IF y = 0 /\ absX < 1280 THEN 2
        ELSE IF absX < 769 /\ absY < 769 THEN 4
        ELSE IF absX < 65 /\ absY < 65 THEN 3
        ELSE IF absX < 4096 /\ absY < 4096 THEN 5
        ELSE 6

\* the branch of the if/elif chain taken (1 the first, 6 the final else)
tripletBranch(x, y) ==
    LET absX == Abs(x)
        absY == Abs(y)
    IN  IF x = 0 /\ absY < 1280 THEN 1
        ELSE IF y = 0 /\ absX < 1280 THEN 2
        ELSE IF absX < 65 /\ absY < 65 THEN 3
        ELSE IF absX < 769 /\ absY < 769 THEN 4
        ELSE IF absX < 4096 /\ absY < 4096 THEN 5
        ELSE 6

packTriplet(x, y, onCurve) ==
    LET absX == Abs(x)
        absY == Abs(y)
        onCurveBit == IF onCurve = 0 THEN 128 ELSE 0
        xSignBit == IF x > 0 THEN 1 ELSE 0
        ySignBit == IF y > 0 THEN 1 ELSE 0
        xySignBits == xySignBitsOf(x, y)
        branch == tripletBranch(x, y)
    IN  IF branch = 1 THEN
            << PackB(onCurveBit + Shr(BitAnd(absY, 3840), 7) + ySignBit),
               PackB(BitAnd(absY, 255)) >>
        ELSE IF branch = 2 THEN
            << PackB(onCurveBit + 10 + Shr(BitAnd(absX, 3840), 7) + xSignBit),
               PackB(BitAnd(absX, 255)) >>
        ELSE IF branch = 3 THEN
            << PackB(onCurveBit + 20 + BitAnd(absX - 1, 48)
                     + Shr(BitAnd(absY - 1, 48), 2) + xySignBits),
               PackB(BitOr(Shl(BitAnd(absX - 1, 15), 4), BitAnd(absY - 1, 15))) >>
        ELSE IF branch = 4 THEN
            << PackB(onCurveBit + 84 + 12 * Shr(BitAnd(absX - 1, 768), 8)
                     + Shr(BitAnd(absY - 1, 768), 6) + xySignBits),
               PackB(BitAnd(absX - 1, 255)) \o PackB(BitAnd(absY - 1, 255)) >>
        ELSE IF branch = 5 THEN
            << PackB(onCurveBit + 120 + xySignBits),
               PackB(Shr(absX, 4))
                 \o PackB(BitOr(Shl(BitAnd(absX, 15), 4), Shr(absY, 8)))
                 \o PackB(BitAnd(absY, 255)) >>
        ELSE
            << PackB(onCurveBit + 124 + xySignBits),
               PackB(Shr(absX, 8)) \o PackB(BitAnd(absX, 255))
                 \o PackB(Shr(absY, 8)) \o PackB(BitAnd(absY, 255)) >>

-----------------------------------------------------------------------------
(* woff.py, transformGlyf: the nPointsStream loop over one simple glyph's   *)
(* contours.  Returns the list of the per-contour encodings, or raises.     *)

RECURSIVE nPointsLoop(_, _, _, _, _, _)
nPointsLoop(endPtsOfContours, i, lastPointIndex, alternate255UInt16, alt255UInt16, acc) ==
    IF i >= Len(endPtsOfContours) THEN Ok(acc)
    ELSE
      LET nPoints == endPtsOfContours[i + 1] - lastPointIndex + (IF i = 0 THEN 1 ELSE 0)
          data == pack255UInt16(nPoints, alternate255UInt16)
          hit == nPoints = 506 /\ alt255UInt16
          expected == IF alternate255UInt16 = 0 THEN <<254, 0>>
                      ELSE IF alternate255UInt16 = 1 THEN <<253, 1, 250>>
                      ELSE <<255, 253>>
      IN  IF ~data.ok THEN data
          ELSE IF hit /\ data.val # expected THEN Raise("AssertionError")
          ELSE nPointsLoop(endPtsOfContours, i + 1, endPtsOfContours[i + 1],
                           IF hit THEN alternate255UInt16 + 1 ELSE alternate255UInt16,
                           alt255UInt16, Append(acc, data.val))

nPointsData(endPtsOfContours, alt255UInt16) ==
    nPointsLoop(endPtsOfContours, 0, 0, 0, alt255UInt16, <<>>)

-----------------------------------------------------------------------------
(* woff.py: the table directory.  A tag is its four bytes. *)

Tag_glyf == <<103, 108, 121, 102>>
Tag_loca == <<108, 111, 99, 97>>
Tag_head == <<104, 101, 97, 100>>
Tag_hmtx == <<104, 109, 116, 120>>
Tag_hhea == <<104, 104, 101, 97>>
Tag_maxp == <<109, 97, 120, 112>>
Tag_name == <<110, 97, 109, 101>>
Tag_cmap == <<99, 109, 97, 112>>
Tag_CFF == <<67, 70, 70, 32>>
\* a tag outside the known-tag table
Tag_ZZZZ == <<90, 90, 90, 90>>

knownTableTags == <<
    <<99, 109, 97, 112>>, <<104, 101, 97, 100>>, <<104, 104, 101, 97>>,   \* 'cmap' 'head' 'hhea'
    <<104, 109, 116, 120>>, <<109, 97, 120, 112>>, <<110, 97, 109, 101>>,   \* 'hmtx' 'maxp' 'name'
    <<79, 83, 47, 50>>, <<112, 111, 115, 116>>, <<99, 118, 116, 32>>,   \* 'OS/2' 'post' 'cvt '
    <<102, 112, 103, 109>>, <<103, 108, 121, 102>>, <<108, 111, 99, 97>>,   \* 'fpgm' 'glyf' 'loca'
    <<112, 114, 101, 112>>, <<67, 70, 70, 32>>, <<86, 79, 82, 71>>,   \* 'prep' 'CFF ' 'VORG'
    <<69, 66, 68, 84>>, <<69, 66, 76, 67>>, <<103, 97, 115, 112>>,   \* 'EBDT' 'EBLC' 'gasp'
    <<104, 100, 109, 120>>, <<107, 101, 114, 110>>, <<76, 84, 83, 72>>,   \* 'hdmx' 'kern' 'LTSH'
    <<80, 67, 76, 84>>, <<86, 68, 77, 88>>, <<118, 104, 101, 97>>,   \* 'PCLT' 'VDMX' 'vhea'
    <<118, 109, 116, 120>>, <<66, 65, 83, 69>>, <<71, 68, 69, 70>>,   \* 'vmtx' 'BASE' 'GDEF'
    <<71, 80, 79, 83>>, <<71, 83, 85, 66>>, <<69, 66, 83, 67>>,   \* 'GPOS' 'GSUB' 'EBSC'
    <<74, 83, 84, 70>>, <<77, 65, 84, 72>>, <<67, 66, 68, 84>>,   \* 'JSTF' 'MATH' 'CBDT'
    <<67, 66, 76, 67>>, <<67, 79, 76, 82>>, <<67, 80, 65, 76>>,   \* 'CBLC' 'COLR' 'CPAL'
    <<83, 86, 71, 32>>, <<115, 98, 105, 120>>, <<97, 99, 110, 116>>,   \* 'SVG ' 'sbix' 'acnt'
    <<97, 118, 97, 114>>, <<98, 100, 97, 116>>, <<98, 108, 111, 99>>,   \* 'avar' 'bdat' 'bloc'
    <<98, 115, 108, 110>>, <<99, 118, 97, 114>>, <<102, 100, 115, 99>>,   \* 'bsln' 'cvar' 'fdsc'
    <<102, 101, 97, 116>>, <<102, 109, 116, 120>>, <<102, 118, 97, 114>>,   \* 'feat' 'fmtx' 'fvar'
    <<103, 118, 97, 114>>, <<104, 115, 116, 121>>, <<106, 117, 115, 116>>,   \* 'gvar' 'hsty' 'just'
    <<108, 99, 97, 114>>, <<109, 111, 114, 116>>, <<109, 111, 114, 120>>,   \* 'lcar' 'mort' 'morx'
    <<111, 112, 98, 100>>, <<112, 114, 111, 112>>, <<116, 114, 97, 107>>,   \* 'opbd' 'prop' 'trak'
    <<90, 97, 112, 102>>, <<83, 105, 108, 102>>, <<71, 108, 97, 116>>,   \* 'Zapf' 'Silf' 'Glat'
    <<71, 108, 111, 99>>, <<70, 101, 97, 116>>, <<83, 105, 108, 108>>   \* 'Gloc' 'Feat' 'Sill'
    >>

unknownTableTagFlag == 63

transformedTables == <<Tag_glyf, Tag_loca>>

\* Python's "x in seq" and seq.index(x) (0-based; the tag is in the list)
InSeq(x, s) == \E k \in 1..Len(s) : s[k] = x
IndexOf(x, s) == (CHOOSE k \in 1..Len(s) : s[k] = x /\ \A j \in 1..(k - 1) : s[j] # x) - 1

\* string comparison a < b, byte by byte
RECURSIVE TagLess(_, _)
TagLess(a, b) ==
    IF b = <<>> THEN FALSE
    ELSE IF a = <<>> THEN TRUE
    ELSE IF Head(a) # Head(b) THEN Head(a) < Head(b)
    ELSE TagLess(Tail(a), Tail(b))

\* sorted(directory): insertion of each entry after the entries not above it
RECURSIVE SortedInsert(_, _)
SortedInsert(e, s) ==
    IF s = <<>> THEN <<e>>
    ELSE IF TagLess(e.tag, Head(s).tag) THEN <<e>> \o s
    ELSE <<Head(s)>> \o SortedInsert(e, Tail(s))

RECURSIVE SortedByTag(_)
SortedByTag(s) ==
    IF s = <<>> THEN <<>>
    ELSE SortedInsert(s[Len(s)], SortedByTag(SubSeq(s, 1, Len(s) - 1)))

_setTransformBits(flag, tranasform) ==
    IF tranasform = 1 THEN BitOr(flag, 64)
    ELSE IF tranasform = 2 THEN BitOr(flag, 128)
    ELSE IF tranasform = 3 THEN BitOr(flag, 192)
    ELSE flag

\* the last index (0-based) of an entry with this tag, -1 for None
LastIndexOfTag(dir, tag) ==
    IF \E k \in 1..Len(dir) : dir[k].tag = tag
    THEN (CHOOSE k \in 1..Len(dir) :
              dir[k].tag = tag /\ \A j \in (k + 1)..Len(dir) : dir[j].tag # tag) - 1
    ELSE -1

\* list.pop(i) and list.insert(i, x), 0-based
ListPop(s, i) == SubSeq(s, 1, i) \o SubSeq(s, i + 2, Len(s))
ListInsert(s, i, x) ==
    LET at == IF i > Len(s) THEN Len(s) ELSE i
    IN SubSeq(s, 1, at) \o <<x>> \o SubSeq(s, at + 1, Len(s))

\* variant: the flag byte holds the position in the list that was passed
packTestDirectoryEntry_passedIndex(table, knownTags, skipTransformLength, Base128Bug) ==
    LET tag == table.tag
        transformFlag == table.transformFlag
        flagByte ==
            IF InSeq(tag, knownTags)
            THEN PackB(_setTransformBits(IndexOf(tag, knownTags), transformFlag))
            ELSE PackB(_setTransformBits(unknownTableTagFlag, transformFlag)) \o tag
        transformed ==
            IF InSeq(tag, transformedTables) THEN transformFlag # 3
            ELSE transformFlag # 0
    IN  flagByte
        \o packBase128(table.origLength, Base128Bug)
        \o (IF transformed /\ ~skipTransformLength
            THEN packBase128(table.transformLength, Base128Bug)
            ELSE <<>>)

\* the bytes of one directory entry
packTestDirectoryEntry(table, knownTags, skipTransformLength, Base128Bug) ==
    LET tag == table.tag
        transformFlag == table.transformFlag
        flagByte ==
            IF InSeq(tag, knownTags)
            THEN PackB(_setTransformBits(IndexOf(tag, knownTableTags), transformFlag))
            ELSE PackB(_setTransformBits(unknownTableTagFlag, transformFlag)) \o tag
        transformed ==
            IF InSeq(tag, transformedTables) THEN transformFlag # 3
            ELSE transformFlag # 0
    IN  flagByte
        \o packBase128(table.origLength, Base128Bug)
        \o (IF transformed /\ ~skipTransformLength
            THEN packBase128(table.transformLength, Base128Bug)
            ELSE <<>>)

\* variant: the entries are sorted for a collection as well
packTestDirectoryOrder_alwaysSorted(dir, isCollection, unsortGlyfLoca) ==
    LET sorted == SortedByTag(dir)
        loca == LastIndexOfTag(sorted, Tag_loca)
        glyf == LastIndexOfTag(sorted, Tag_glyf)
    IN  IF ~unsortGlyfLoca THEN Ok(sorted)
        ELSE IF loca <= 0 \/ glyf <= 0 THEN Raise("AssertionError")
        ELSE Ok(ListInsert(ListPop(sorted, loca), glyf, sorted[loca + 1]))

\* the order in which the entries are packed, or the failed assertion
packTestDirectoryOrder(dir, isCollection, unsortGlyfLoca) ==
    LET sorted == IF ~isCollection THEN SortedByTag(dir) ELSE dir
        loca == LastIndexOfTag(sorted, Tag_loca)
        glyf == LastIndexOfTag(sorted, Tag_glyf)
    IN  IF ~unsortGlyfLoca THEN Ok(sorted)
        ELSE IF loca <= 0 \/ glyf <= 0 THEN Raise("AssertionError")
        ELSE Ok(ListInsert(ListPop(sorted, loca), glyf, sorted[loca + 1]))

packTestDirectory(dir, knownTags, skipTransformLength, isCollection, unsortGlyfLoca, Base128Bug) ==
    LET order == packTestDirectoryOrder(dir, isCollection, unsortGlyfLoca)
    IN  IF ~order.ok THEN order
        ELSE IF \E k \in 1..Len(dir) : dir[k].transformFlag > 3 THEN Raise("AssertionError")
        ELSE Ok(Flatten([k \in 1..Len(order.val) |->
                    packTestDirectoryEntry(order.val[k], knownTags,
                                           skipTransformLength, Base128Bug)]))

-----------------------------------------------------------------------------
(* Default values of keyword parameters.  A caller passes "True", "False"   *)
(* or leaves the parameter out ("default").                                 *)

packBase128_bug_default == FALSE
packTestDirectory_Base128Bug_default == FALSE

Given(passed, default) == IF passed = "default" THEN default ELSE passed = "True"

-----------------------------------------------------------------------------
(* The calls of the codec functions the model makes. *)

Near(S) == {v + d : v \in S, d \in (0 - Spread)..Spread}

LoSamples == Near({0, 128, 16384, 65535}) \cap (0..65535)
\* hi = 32: 2^21, 4096: 2^28, 65536: 2^32, 524288: 2^35
HiSamples == Near({0, 32, 4096, 65536, 524288}) \cap (0..1048576)

Base128Calls ==
    {[op |-> "packBase128", n |-> Wide(h, l), bug |-> b] :
        h \in HiSamples, l \in LoSamples, b \in {"default", "True", "False"}}

Samples255 == (0..Dense255) \cup (Near({4096, 32768, 65535}) \cap (0..65535))

Calls255 ==
    {[op |-> "pack255UInt16", n |-> n, alternate |-> a] :
        n \in Samples255, a \in 0..3}

TripletMagnitudes ==
    (Near({0, 65, 769, 1280, 4096, 65535}) \cup {255, 256, 1023, 1024}) \cap (0..65535)
TripletDeltas == TripletMagnitudes \cup {0 - m : m \in TripletMagnitudes}

TripletCalls ==
    {[op |-> "packTriplet", x |-> x, y |-> y, onCurve |-> c] :
        x \in TripletDeltas, y \in TripletDeltas, c \in {0, 1}}

ContourSizes == {3, 505, 506, 507}

RECURSIVE EndPoints(_, _)
EndPoints(sizes, before) ==
    IF sizes = <<>> THEN <<>>
    ELSE <<before + Head(sizes) - 1>> \o EndPoints(Tail(sizes), before + Head(sizes))

NPointsCalls ==
    {[op |-> "nPoints", endPtsOfContours |-> EndPoints(sizes, 0), alt255UInt16 |-> a] :
        sizes \in UNION {[1..k -> ContourSizes] : k \in 1..MaxContours},
        a \in BOOLEAN}

DirTags == {Tag_glyf, Tag_loca, Tag_head, Tag_name, Tag_ZZZZ}

\* 2^35, the origLength makeBase128Bug3 sets on glyf and loca
TwoTo35 == Wide(524288, 0)

OrigLengthOf(tag, bigLength) ==
    IF tag \in {Tag_glyf, Tag_loca} /\ bigLength THEN TwoTo35
    ELSE IF tag = Tag_glyf THEN ToWide(300)
    ELSE IF tag = Tag_loca THEN ToWide(20)
    ELSE IF tag = Tag_head THEN ToWide(54)
    ELSE ToWide(130)

TransformLengthOf(tag) ==
    IF tag = Tag_glyf THEN ToWide(200)
    ELSE IF tag = Tag_loca THEN ToWide(0)
    ELSE IF tag = Tag_head THEN ToWide(54)
    ELSE ToWide(130)

DirEntry(tag, flag, bigLength) ==
    [tag |-> tag, transformFlag |-> flag,
     origLength |-> OrigLengthOf(tag, bigLength),
     transformLength |-> TransformLengthOf(tag)]

\* the transform versions the generators store: 0, 1 (hmtx) and 3 (null
\* transform of glyf and loca)
TransformFlagSamples == {0, 1, 3}

\* directories of distinct tags, 1 to MaxDir entries
DirShapes ==
    {s \in UNION {[1..k -> DirTags \X TransformFlagSamples] : k \in 1..MaxDir} :
        \A i, j \in 1..Len(s) : i # j => s[i][1] # s[j][1]}

\* makeCustomTagForKnownTable: the known tags without cmap and name
customKnownTags == SelectSeq(knownTableTags, LAMBDA t : t \notin {Tag_cmap, Tag_name})

packTestDirectory_knownTags_default == knownTableTags

GivenTags(passed, default) == IF passed = "default" THEN default ELSE customKnownTags

DefaultOpts ==
    [knownTags |-> "default", skipTransformLength |-> FALSE, isCollection |-> FALSE,
     unsortGlyfLoca |-> FALSE, Base128Bug |-> "default", bigLength |-> FALSE]

DirOptions ==
    {DefaultOpts,
     [DefaultOpts EXCEPT !.knownTags = "custom"],
     [DefaultOpts EXCEPT !.skipTransformLength = TRUE],
     [DefaultOpts EXCEPT !.isCollection = TRUE],
     [DefaultOpts EXCEPT !.unsortGlyfLoca = TRUE],
     [DefaultOpts EXCEPT !.Base128Bug = "True"],
     [DefaultOpts EXCEPT !.bigLength = TRUE]}

DirCalls ==
    {[op |-> "packTestDirectory",
      directory |-> [k \in 1..Len(s) |-> DirEntry(s[k][1], s[k][2], o.bigLength)],
      opts |-> o] :
        s \in DirShapes, o \in DirOptions}

idleGlyf ==
    /\ glyphIndex = 0
    /\ nContourStream = <<>>
    /\ nPointsStream = <<>>
    /\ flagStream = <<>>
    /\ glyphStream = <<>>
    /\ compositeStream = <<>>
    /\ bboxStream = <<>>
    /\ instructionStream = <<>>
    /\ bboxBitmap = <<>>

idleSFNT ==
    /\ font = <<>>
    /\ tableOrder = <<>>
    /\ tableData = <<>>
    /\ compData = <<>>
    /\ directory = <<>>
    /\ header = <<>>
    /\ tableIndices = <<>>
    /\ collectionDirectory = <<>>
    /\ locaIndices = <<>>

\* no generator and no verifier has run
idleScripts ==
    /\ registeredIdentifiers = {}
    /\ registeredTitles = {}
    /\ registeredDescriptions = {}
    /\ testRegistry = <<>>
    /\ files = {}
    /\ test_results = <<>>
    /\ line = 0

Init ==
    /\ pc = "call"
    /\ \/ args \in Base128Calls
       \/ args \in Calls255
       \/ args \in TripletCalls
       \/ args \in NPointsCalls
       \/ args \in DirCalls
    /\ ret = NoRet
    /\ idleGlyf
    /\ idleSFNT
    /\ fonts = <<>>
    /\ idleScripts

Return(r) ==
    /\ pc' = "done"
    /\ ret' = r
    /\ UNCHANGED <<args, glyfVars, sfntVars, collVars, scriptVars>>

PackBase128Call ==
    /\ pc = "call"
    /\ args.op = "packBase128"
    /\ Return(Ok(packBase128(args.n, Given(args.bug, packBase128_bug_default))))

Pack255UInt16Call ==
    /\ pc = "call"
    /\ args.op = "pack255UInt16"
    /\ Return(pack255UInt16(args.n, args.alternate))

PackTripletCall ==
    /\ pc = "call"
    /\ args.op = "packTriplet"
    /\ Return(Ok(packTriplet(args.x, args.y, args.onCurve)))

NPointsCall ==
    /\ pc = "call"
    /\ args.op = "nPoints"
    /\ Return(nPointsData(args.endPtsOfContours, args.alt255UInt16))

PackTestDirectoryCall ==
    /\ pc = "call"
    /\ args.op = "packTestDirectory"
    /\ Return(packTestDirectory(args.directory,
                                GivenTags(args.opts.knownTags,
                                          packTestDirectory_knownTags_default),
                                args.opts.skipTransformLength, args.opts.isCollection,
                                args.opts.unsortGlyfLoca,
                                Given(args.opts.Base128Bug,
                                      packTestDirectory_Base128Bug_default)))

Next ==
    \/ PackBase128Call
    \/ Pack255UInt16Call
    \/ PackTripletCall
    \/ NPointsCall
    \/ PackTestDirectoryCall

Spec == Init /\ [][Next]_vars

-----------------------------------------------------------------------------
(* Readers of the wire formats (WOFF2: UIntBase128, 255UInt16, triplets),   *)
(* used to state the claims about the packers.                              *)

Done(op) == pc = "done" /\ args.op = op

\* big-endian base-128 value of a byte string, as a wide integer
RECURSIVE DecodeBase128From(_, _)
DecodeBase128From(b, acc) ==
    IF b = <<>> THEN acc
    ELSE LET t == acc.lo * 128 + (Head(b) % 128)
         IN DecodeBase128From(Tail(b), Wide(acc.hi * 128 + t \div 65536, t % 65536))

DecodeBase128(b) == DecodeBase128From(b, Wide(0, 0))

\* number of 7-bit groups a wide integer needs
GroupsOf(n) ==
    IF n.hi = 0 /\ n.lo < 128 THEN 1
    ELSE IF n.hi = 0 /\ n.lo < 16384 THEN 2
    ELSE IF n.hi < 32 THEN 3
    ELSE IF n.hi < 4096 THEN 4
    ELSE IF n.hi < 524288 THEN 5
    ELSE 6

\* a well-formed UIntBase128 without a leading zero group
WellFormedBase128(b) ==
    /\ Len(b) >= 1
    /\ \A k \in 1..(Len(b) - 1) : b[k] >= 128
    /\ b[Len(b)] < 128
    /\ (Len(b) > 1 => b[1] % 128 # 0)

\* the length of a packed directory whose length fields are all minimal
DirEntryLength(e, knownTags, skipTransformLength) ==
    (IF InSeq(e.tag, knownTags) THEN 1 ELSE 5)
    + GroupsOf(e.origLength)
    + (IF ~skipTransformLength
          /\ (IF e.tag \in {Tag_glyf, Tag_loca} THEN e.transformFlag # 3
              ELSE e.transformFlag # 0)
       THEN GroupsOf(e.transformLength) ELSE 0)

RECURSIVE DirLength(_, _, _)
DirLength(dir, knownTags, skipTransformLength) ==
    IF dir = <<>> THEN 0
    ELSE DirEntryLength(Head(dir), knownTags, skipTransformLength)
         + DirLength(Tail(dir), knownTags, skipTransformLength)

\* the known-tag list a directory call packs with
KnownTagsInUse == GivenTags(args.opts.knownTags, packTestDirectory_knownTags_default)

\* the length of the UIntBase128 field a byte string starts with, 0 for none
Base128FieldLen(b) ==
    IF \E k \in 1..Len(b) : b[k] < 128
    THEN CHOOSE k \in 1..Len(b) : b[k] < 128 /\ \A j \in 1..(k - 1) : b[j] >= 128
    ELSE 0

\* the table directory reader: the entries a decoder finds in the bytes
RECURSIVE ReadDirectory(_, _)
ReadDirectory(b, skipTransformLength) ==
    IF b = <<>> THEN <<>>
    ELSE
      LET low == b[1] % 64
          code == b[1] \div 64
          literal == low = 63
          tagOf == IF ~literal THEN knownTableTags[low + 1]
                   ELSE IF Len(b) >= 5 THEN SubSeq(b, 2, 5) ELSE <<>>
          afterTag == SubSeq(b, (IF literal THEN 6 ELSE 2), Len(b))
          n1 == Base128FieldLen(afterTag)
          transformed == IF tagOf \in {Tag_glyf, Tag_loca} THEN code # 3 ELSE code # 0
          has == transformed /\ ~skipTransformLength
          afterOrig == SubSeq(afterTag, n1 + 1, Len(afterTag))
          n2 == IF has THEN Base128FieldLen(afterOrig) ELSE 0
      IN  << [tag |-> tagOf, literal |-> literal, index |-> low, transformFlag |-> code,
              origLength |-> DecodeBase128(SubSeq(afterTag, 1, n1)),
              origField |-> n1,
              hasTransformLength |-> has,
              transformLength |-> DecodeBase128(SubSeq(afterOrig, 1, n2))] >>
          \o ReadDirectory(SubSeq(afterOrig, n2 + 1, Len(afterOrig)), skipTransformLength)

\* an entry counts as transformed
CountsAsTransformed(e) ==
    IF e.tag \in {Tag_glyf, Tag_loca} THEN e.transformFlag # 3 ELSE e.transformFlag # 0

\* the 255UInt16 reader: the value, or -1 when the bytes are not one value
Decode255(b) ==
    IF Len(b) = 0 THEN -1
    ELSE IF b[1] < 253 THEN (IF Len(b) = 1 THEN b[1] ELSE -1)
    ELSE IF b[1] = 255 THEN (IF Len(b) = 2 THEN 253 + b[2] ELSE -1)
    ELSE IF b[1] = 254 THEN (IF Len(b) = 2 THEN 506 + b[2] ELSE -1)
    ELSE (IF Len(b) = 3 THEN b[2] * 256 + b[3] ELSE -1)

\* the triplet reader of the WOFF2 glyf transform
WithSign(bit, v) == IF bit % 2 = 1 THEN v ELSE 0 - v

TripletClass(flagByte) ==
    LET flag == flagByte % 128
    IN  IF flag < 10 THEN 1 ELSE IF flag < 20 THEN 2 ELSE IF flag < 84 THEN 3
        ELSE IF flag < 120 THEN 4 ELSE IF flag < 124 THEN 5 ELSE 6

ClassBytes(c) == IF c <= 3 THEN 1 ELSE c - 2

DecodeTriplet(flagByte, d) ==
    LET flag == flagByte % 128
        c == TripletClass(flagByte)
        onCurve == IF flagByte >= 128 THEN 0 ELSE 1
        xy ==
          IF Len(d) # ClassBytes(c) THEN <<70000, 70000>>
          ELSE IF c = 1 THEN
            <<0, WithSign(flag, Shl(BitAnd(flag, 14), 7) + d[1])>>
          ELSE IF c = 2 THEN
            <<WithSign(flag, Shl(BitAnd(flag - 10, 14), 7) + d[1]), 0>>
          ELSE IF c = 3 THEN
            LET b0 == flag - 20
            IN <<WithSign(flag, 1 + BitAnd(b0, 48) + Shr(d[1], 4)),
                 WithSign(Shr(flag, 1), 1 + Shl(BitAnd(b0, 12), 2) + BitAnd(d[1], 15))>>
          ELSE IF c = 4 THEN
            LET b0 == flag - 84
            IN <<WithSign(flag, 1 + Shl(b0 \div 12, 8) + d[1]),
                 WithSign(Shr(flag, 1), 1 + Shl(Shr(b0 % 12, 2), 8) + d[2])>>
          ELSE IF c = 5 THEN
            <<WithSign(flag, Shl(d[1], 4) + Shr(d[2], 4)),
              WithSign(Shr(flag, 1), Shl(BitAnd(d[2], 15), 8) + d[3])>>
          ELSE
            <<WithSign(flag, Shl(d[1], 8) + d[2]),
              WithSign(Shr(flag, 1), Shl(d[3], 8) + d[4])>>
    IN <<xy[1], xy[2], onCurve>>

\* the deltas each class of the triplet format can hold
CanRepresent(c, x, y) ==
    IF c = 1 THEN x = 0 /\ Abs(y) <= 1279
    ELSE IF c = 2 THEN y = 0 /\ Abs(x) <= 1279
    ELSE IF c = 3 THEN Abs(x) \in 1..64 /\ Abs(y) \in 1..64
    ELSE IF c = 4 THEN Abs(x) \in 1..768 /\ Abs(y) \in 1..768
    ELSE IF c = 5 THEN Abs(x) <= 4095 /\ Abs(y) <= 4095
    ELSE Abs(x) <= 65535 /\ Abs(y) <= 65535

-----------------------------------------------------------------------------
(* C1: for every n in [0, 2^32), packBase128(n) without bug=True (the       *)
(* default of packBase128, packTestDirectory and defaultTestData) returns   *)
(* base128Size(n) bytes, 1 to 5 of them, every byte but the last with bit   *)
(* 0x80 set and the last without, no leading zero group unless it is the    *)
(* only byte, and the bytes read back as n; a leading 0x80 byte appears     *)
(* only when bug=True is passed, and a directory packed without             *)
(* Base128Bug=True has only minimal length fields.                          *)
C1_Base128RoundTrip ==
    /\ Done("packBase128") =>
         LET b == ret.val
             n == args.n
         IN  /\ ret.ok
             /\ (args.bug # "True" /\ n.hi < 65536) =>
                   /\ Len(b) = base128Size(n)
                   /\ Len(b) = GroupsOf(n)
                   /\ Len(b) \in 1..5
                   /\ WellFormedBase128(b)
                   /\ DecodeBase128(b) = n
             /\ (Len(b) > 1 /\ b[1] = 128) => args.bug = "True"
    /\ (Done("packTestDirectory") /\ ret.ok /\ args.opts.Base128Bug # "True") =>
         Len(ret.val) = DirLength(args.directory, KnownTagsInUse, args.opts.skipTransformLength)

\* the largest n below 2^32 was packed by a caller that left bug out
C1_Witness ==
    /\ Done("packBase128")
    /\ args.bug = "default"
    /\ args.n = Wide(65535, 65535)
    /\ ret.val = <<143, 255, 255, 255, 127>>

(* C2 as claimed: a length of 2^35 or more is reported as an                *)
(* IntegerRangeViolation; packBase128 and packTestDirectory never return    *)
(* an encoding of a length that is longer than 5 bytes.                     *)
C2_RangeViolationReported ==
    /\ (Done("packBase128") /\ args.n.hi >= 524288) =>
          ~ret.ok /\ ret.err = "IntegerRangeViolation"
    /\ (Done("packTestDirectory")
          /\ \E k \in 1..Len(args.directory) : args.directory[k].origLength.hi >= 524288) =>
          ~ret.ok /\ ret.err = "IntegerRangeViolation"

(* C2 amended: packBase128 and packTestDirectory check no range.  Every     *)
(* length is packed without error as its minimal base-128 form, which is    *)
(* longer than 5 bytes exactly when the length is 2^35 or more, and a       *)
(* directory holding such an origLength is packed with it.                  *)
C2_NoRangeCheck ==
    /\ Done("packBase128") =>
         LET body == IF args.bug = "True" THEN Tail(ret.val) ELSE ret.val
         IN  /\ ret.ok
             /\ Len(body) = GroupsOf(args.n)
             /\ DecodeBase128(body) = args.n
             /\ (Len(body) > 5 <=> args.n.hi >= 524288)
    /\ (Done("packTestDirectory") /\ args.opts.bigLength) =>
         /\ ret.ok
         /\ Len(ret.val) = DirLength(args.directory, KnownTagsInUse, args.opts.skipTransformLength)

\* 2^35 was packed into six bytes
C2_Witness ==
    /\ Done("packBase128")
    /\ args.n = TwoTo35
    /\ args.bug = "default"
    /\ ret.ok
    /\ ret.val = <<129, 128, 128, 128, 128, 0>>

(* C3: for every n in [0, 65535] and alternate in {0, 1, 2},                *)
(* pack255UInt16(n, alternate) is 1 to 3 bytes that the 255UInt16 reader    *)
(* reads back as n; 506 is emitted as [254,0], [253,1,250], [255,253] for   *)
(* alternate 0, 1, 2, and that is the order in which transformGlyf encodes  *)
(* the successive 506-point contours of one glyph when alt255UInt16 is on.  *)
Is506(endPts, k) == endPts[k] - (IF k = 1 THEN -1 ELSE endPts[k - 1]) = 506

C3_Pack255RoundTrip ==
    /\ (Done("pack255UInt16") /\ args.alternate \in 0..2) =>
         /\ ret.ok
         /\ Len(ret.val) \in 1..3
         /\ Decode255(ret.val) = args.n
         /\ args.n = 506 =>
              ret.val = (IF args.alternate = 0 THEN <<254, 0>>
                         ELSE IF args.alternate = 1 THEN <<253, 1, 250>>
                         ELSE <<255, 253>>)
    /\ (Done("nPoints") /\ ret.ok) =>
         LET endPts == args.endPtsOfContours
             Earlier506(k) == Cardinality({j \in 1..(k - 1) : Is506(endPts, j)})
         IN  /\ Len(ret.val) = Len(endPts)
             /\ \A k \in 1..Len(endPts) :
                  Is506(endPts, k) =>
                    ret.val[k] =
                      (IF ~args.alt255UInt16 \/ Earlier506(k) = 0 THEN <<254, 0>>
                       ELSE IF Earlier506(k) = 1 THEN <<253, 1, 250>>
                       ELSE <<255, 253>>)

\* a glyph with three 506-point contours, alt255UInt16 on
C3_Witness ==
    /\ Done("nPoints")
    /\ args.alt255UInt16
    /\ ret.ok
    /\ ret.val = << <<254, 0>>, <<253, 1, 250>>, <<255, 253>> >>

(* C4: for |dx| < 4096 and |dy| < 4096 and either on-curve value,           *)
(* packTriplet returns one flag byte and 1 to 3 data bytes from which the   *)
(* triplet reader recovers (dx, dy, onCurve); bit 7 of the flag byte is set *)
(* exactly when the point is off-curve and a sign bit is set exactly when   *)
(* its delta is positive.                                                   *)
C4_TripletRoundTrip ==
    (Done("packTriplet") /\ Abs(args.x) < 4096 /\ Abs(args.y) < 4096) =>
        LET flags == ret.val[1]
            glyphs == ret.val[2]
            flag == flags[1] % 128
            c == TripletClass(flags[1])
        IN  /\ Len(flags) = 1
            /\ Len(glyphs) \in 1..3
            /\ DecodeTriplet(flags[1], glyphs) = <<args.x, args.y, args.onCurve>>
            /\ (flags[1] >= 128 <=> args.onCurve = 0)
            /\ c = 1 => (flag % 2 = 1 <=> args.y > 0)
            /\ c >= 2 => (flag % 2 = 1 <=> args.x > 0)
            /\ c >= 3 => (Shr(flag, 1) % 2 = 1 <=> args.y > 0)

\* an off-curve point with both deltas at the ends of the range
C4_Witness ==
    /\ Done("packTriplet")
    /\ args.x = -4095
    /\ args.y = 4095
    /\ args.onCurve = 0
    /\ ret.val = << <<250>>, <<255, 255, 255>> >>

(* C5 as claimed: five classes tested in the order (1) dx = 0, |dy| < 1280, *)
(* (2) dy = 0, |dx| < 1280, (3) both < 65, (4) both < 769, (5) fallback;    *)
(* every delta outside classes 1 to 4 goes to the one fallback class that   *)
(* packs 12 bits per axis (3 data bytes), and no class that can represent   *)
(* the delta uses fewer data bytes.                                         *)
FirstFit(x, y) ==
    IF x = 0 /\ Abs(y) < 1280 THEN 1
    ELSE IF y = 0 /\ Abs(x) < 1280 THEN 2
    ELSE IF Abs(x) < 65 /\ Abs(y) < 65 THEN 3
    ELSE IF Abs(x) < 769 /\ Abs(y) < 769 THEN 4
    ELSE 5

C5_FiveClasses ==
    Done("packTriplet") =>
        LET flags == ret.val[1]
            glyphs == ret.val[2]
        IN  /\ TripletClass(flags[1]) = FirstFit(args.x, args.y)
            /\ Len(glyphs) = ClassBytes(FirstFit(args.x, args.y))
            /\ \A c \in 1..5 :
                 CanRepresent(c, args.x, args.y) => ClassBytes(c) >= Len(glyphs)

(* C5 amended: six classes.  The fifth, 12 bits per axis in 3 data bytes,   *)
(* is chosen only when |dx| < 4096 and |dy| < 4096; every other delta goes  *)
(* to a sixth class that packs 16 bits per axis in 4 data bytes.  The first *)
(* class in that order whose condition holds is chosen, and no class that   *)
(* can represent the delta uses fewer data bytes.                           *)
C5_SixClasses ==
    Done("packTriplet") =>
        LET flags == ret.val[1]
            glyphs == ret.val[2]
            first == IF FirstFit(args.x, args.y) < 5 THEN FirstFit(args.x, args.y)
                     ELSE IF Abs(args.x) < 4096 /\ Abs(args.y) < 4096 THEN 5
                     ELSE 6
        IN  /\ TripletClass(flags[1]) = first
            /\ Len(glyphs) = ClassBytes(first)
            /\ CanRepresent(first, args.x, args.y)
            /\ DecodeTriplet(flags[1], glyphs) = <<args.x, args.y, args.onCurve>>
            /\ \A c \in 1..6 :
                 CanRepresent(c, args.x, args.y) => ClassBytes(c) >= Len(glyphs)

\* a delta of 4096 was packed into the 16-bit class
C5_Witness ==
    /\ Done("packTriplet")
    /\ args.x = 4096
    /\ args.y = -1
    /\ args.onCurve = 1
    /\ ret.val = << <<125>>, <<16, 0, 0, 1>> >>

\* the tags of the entries read back from a packed directory, and as passed
EmittedTags ==
    LET r == ReadDirectory(ret.val, args.opts.skipTransformLength)
    IN  [k \in 1..Len(r) |-> r[k].tag]

InputTags == [k \in 1..Len(args.directory) |-> args.directory[k].tag]

(* C12: packTestDirectory emits the entries in ascending byte order of      *)
(* their tags, whatever the order passed, when isCollection is false and    *)
(* unsortGlyfLoca is not requested, and in exactly the order passed when    *)
(* isCollection is true.                                                    *)
C12_DirectoryOrder ==
    (Done("packTestDirectory") /\ ret.ok) =>
        /\ (~args.opts.isCollection /\ ~args.opts.unsortGlyfLoca) =>
              /\ Len(EmittedTags) = Len(InputTags)
              /\ {EmittedTags[k] : k \in 1..Len(EmittedTags)}
                   = {InputTags[k] : k \in 1..Len(InputTags)}
              /\ \A k \in 1..(Len(EmittedTags) - 1) :
                     TagLess(EmittedTags[k], EmittedTags[k + 1])
        /\ args.opts.isCollection => EmittedTags = InputTags

\* loca, head, glyf of a single font come out as glyf, head, loca
C12_Witness ==
    /\ Done("packTestDirectory") /\ ret.ok
    /\ args.opts = DefaultOpts
    /\ InputTags = <<Tag_loca, Tag_head, Tag_glyf>>
    /\ EmittedTags = <<Tag_glyf, Tag_head, Tag_loca>>

\* the entries read with the given reader are the entries passed, field by
\* field, with the transformLength present as the predicate says
EntriesReadBack(r, present(_)) ==
    LET dir == args.directory
    IN  /\ Len(r) = Len(dir)
        /\ \A i, j \in 1..Len(r) : i # j => r[i].tag # r[j].tag
        /\ \A k \in 1..Len(r) : \E j \in 1..Len(dir) :
              LET e == dir[j]
              IN  /\ r[k].tag = e.tag
                  /\ r[k].transformFlag = e.transformFlag
                  /\ r[k].transformFlag \in 0..3
                  /\ r[k].literal <=> ~InSeq(e.tag, KnownTagsInUse)
                  /\ ~r[k].literal =>
                        /\ r[k].index = IndexOf(e.tag, knownTableTags)
                        /\ r[k].index \in 0..62
                  /\ r[k].origField >= 1
                  /\ r[k].origLength = e.origLength
                  /\ r[k].hasTransformLength <=> present(e)
                  /\ r[k].hasTransformLength => r[k].transformLength = e.transformLength

TransformedAndKept(e) == CountsAsTransformed(e) /\ ~args.opts.skipTransformLength

(* C13 as claimed: every entry is a flag byte (known-tag position or 63     *)
(* and the literal tag in the low 6 bits, transform code in bits 6 and 7),  *)
(* UIntBase128(origLength), and UIntBase128(transformLength) exactly when   *)
(* the entry counts as transformed.                                         *)
C13_TransformLengthWhenTransformed ==
    (Done("packTestDirectory") /\ ret.ok) =>
        /\ Len(knownTableTags) = 63
        /\ EntriesReadBack(ReadDirectory(ret.val, FALSE), CountsAsTransformed)

(* C13: every entry is a flag byte whose low 6 bits are the tag's position  *)
(* (0 to 62) in the 63-entry knownTableTags list, or 63 followed by the     *)
(* literal tag when the tag is not in the known-tag list in use, and whose  *)
(* bits 6 and 7 hold the transform code; then UIntBase128(origLength); then *)
(* UIntBase128(transformLength) exactly when the entry counts as            *)
(* transformed and skipTransformLength was not passed.                      *)
C13_EntryLayout ==
    (Done("packTestDirectory") /\ ret.ok) =>
        /\ Len(knownTableTags) = 63
        /\ EntriesReadBack(ReadDirectory(ret.val, args.opts.skipTransformLength),
                           TransformedAndKept)

\* head and name packed with the list that leaves name out: head is known
\* tag 1, name is written as 63 and its four letters
C13_Witness ==
    /\ Done("packTestDirectory")
    /\ args.opts.knownTags = "custom"
    /\ InputTags = <<Tag_name, Tag_head>>
    /\ args.directory[1].transformFlag = 0
    /\ args.directory[2].transformFlag = 1
    /\ ret = Ok(<<65, 54, 54, 63, 110, 97, 109, 101, 129, 2>>)

-----------------------------------------------------------------------------
(* woff.py: transformGlyf.                                                  *)
(*                                                                          *)
(* A glyph is a record: numberOfContours (0 empty, -1 composite),           *)
(* endPtsOfContours, coordinates (<<x, y>> pairs), flags, hasProgram and    *)
(* program (the bytecode), components (<<glyphID, x, y>> triples), and bbox *)
(* = <<xMin, yMin, xMax, yMax>> as stored in the glyph (<<>> when the glyph *)
(* object has no xMin attribute).  The glyph ID is the position in          *)
(* glyf.glyphOrder, from 0.                                                 *)

\* glyphs per font drawn freely (after the filler glyphs)
MaxGlyphs == 2

PackL(v) == <<v \div 16777216, (v \div 65536) % 256, (v \div 256) % 256, v % 256>>

Zeros(k) == [i \in 1..k |-> 0]

SetMin(S) == CHOOSE v \in S : \A w \in S : v <= w
SetMax(S) == CHOOSE v \in S : \A w \in S : v >= w

\* fontTools calcIntBounds over integer coordinates
calcIntBounds(coords) ==
    IF coords = <<>> THEN <<0, 0, 0, 0>>
    ELSE LET xs == {coords[k][1] : k \in 1..Len(coords)}
             ys == {coords[k][2] : k \in 1..Len(coords)}
         IN <<SetMin(xs), SetMin(ys), SetMax(xs), SetMax(ys)>>

isComposite(glyph) == glyph.numberOfContours = -1

\* fontTools GlyphComponent.compile(more, haveInstructions, glyf) of a
\* component placed by an x, y offset, without a transform
componentCompile(comp, more, haveInstructions) ==
    LET words == ~(comp[2] \in -128..127 /\ comp[3] \in -128..127)
        cflags == 2 + (IF words THEN 1 ELSE 0) + (IF more THEN 32 ELSE 0)
                  + (IF haveInstructions THEN 256 ELSE 0)
        Packb(v) == <<IF v < 0 THEN v + 256 ELSE v>>
    IN  PackH(cflags) \o PackH(comp[1])
        \o (IF words THEN Packh(comp[2]) \o Packh(comp[3])
            ELSE Packb(comp[2]) \o Packb(comp[3]))

\* the compositeStream loop over glyph.components
compositeData(glyph) ==
    LET n == Len(glyph.components)
    IN Flatten([k \in 1..n |->
                  componentCompile(glyph.components[k], k # n,
                                   k = n /\ glyph.hasProgram)])

\* the flagStream and glyphStream loops over the points of a simple glyph:
\* <<flags, data>> of the points from index j on
RECURSIVE tripletLoop(_, _, _, _)
tripletLoop(glyph, j, lastX, lastY) ==
    IF j > glyph.endPtsOfContours[Len(glyph.endPtsOfContours)] THEN << <<>>, <<>> >>
    ELSE LET x == glyph.coordinates[j + 1][1]
             y == glyph.coordinates[j + 1][2]
             onCurve == BitAnd(glyph.flags[j + 1], 1)
             t == packTriplet(x - lastX, y - lastY, onCurve)
             rest == tripletLoop(glyph, j + 1, x, y)
         IN <<t[1] \o rest[1], t[2] \o rest[2]>>

\* whether the bounding box of a glyph with contours or components is written,
\* with the comparison of a simple glyph's boxes left out
writeBBoxOf_always(glyph, glyphBBox) ==
    IF isComposite(glyph) THEN glyphBBox # "nocomposite"
    ELSE TRUE

\* whether the bounding box of a glyph with contours or components is written
writeBBoxOf(glyph, glyphBBox) ==
    IF isComposite(glyph) THEN glyphBBox # "nocomposite"
    ELSE LET oldBounds == glyph.bbox
             newBounds == calcIntBounds(glyph.coordinates)
         IN oldBounds # newBounds

\* whether an empty glyph gets a bounding box, decided by its stored box
emptyBBoxOf_stored(glyph, glyphBBox) == glyph.bbox # <<0, 0, 0, 0>>

\* whether an empty glyph gets a bounding box
emptyBBoxOf(glyph, glyphBBox) == glyphBBox = "empty"

\* bboxBitmap[glyphId >> 3] |= 0x80 >> (glyphId & 7)
SetBBoxBit(bitmap, glyphId) ==
    [bitmap EXCEPT ![Shr(glyphId, 3) + 1] = BitOr(@, Shr(128, BitAnd(glyphId, 7)))]

PackBBox(b) == Packh(b[1]) \o Packh(b[2]) \o Packh(b[3]) \o Packh(b[4])

(* The fonts handed to transformGlyf. *)

SquareCoords == << <<0, 0>>, <<0, 1000>>, <<1000, 1000>>, <<1000, 0>> >>

EmptyGlyph(b) ==
    [numberOfContours |-> 0, endPtsOfContours |-> <<>>, coordinates |-> <<>>,
     flags |-> <<>>, hasProgram |-> FALSE, program |-> <<>>, components |-> <<>>,
     bbox |-> b]

\* makeGlyfBBox1's "bbox1" square, with the stored box given
SquareGlyph(b) ==
    [numberOfContours |-> 1, endPtsOfContours |-> <<3>>, coordinates |-> SquareCoords,
     flags |-> <<1, 1, 1, 1>>, hasProgram |-> TRUE, program |-> <<>>,
     components |-> <<>>, bbox |-> b]

\* two contours, off-curve points, negative coordinates and instructions
CurveGlyph(b) ==
    [numberOfContours |-> 2, endPtsOfContours |-> <<2, 5>>,
     coordinates |-> << <<-5, -3>>, <<70, 2>>, <<10, 900>>,
                        <<10, 0>>, <<10, 5000>>, <<-1300, 4>> >>,
     flags |-> <<1, 0, 1, 1, 0, 1>>, hasProgram |-> TRUE, program |-> <<176, 1, 2>>,
     components |-> <<>>, bbox |-> b]

\* makeGlyfBBox1's "bbox3": two components, the second moved by 1000
CompositeGlyph(b, withProgram) ==
    [numberOfContours |-> -1, endPtsOfContours |-> <<>>, coordinates |-> <<>>,
     flags |-> <<>>, hasProgram |-> withProgram,
     program |-> IF withProgram THEN <<177, 3>> ELSE <<>>,
     components |-> << <<0, 0, 0>>, <<1, 1000, 0>> >>, bbox |-> b]

\* a box with one coordinate moved
Moved(b, k, d) == [b EXCEPT ![k] = @ + d]

SquareBox == <<0, 0, 1000, 1000>>
CurveBox == <<-1300, -3, 70, 5000>>

GlyphSamples ==
    {EmptyGlyph(<<0, 0, 0, 0>>), EmptyGlyph(<<10, 10, 10, 10>>),
     SquareGlyph(SquareBox), SquareGlyph(Moved(SquareBox, 3, -100)),
     CurveGlyph(CurveBox),
     CompositeGlyph(<<0, 0, 2000, 1000>>, FALSE),
     CompositeGlyph(<<0, 0, 2000, 1000>>, TRUE)}
    \cup {SquareGlyph(Moved(SquareBox, k, d)) : k \in 1..4, d \in {-1, 1}}
    \cup {CurveGlyph(Moved(CurveBox, k, 1)) : k \in {1, 4}}

\* empty glyphs ahead of the drawn ones, so that glyph IDs reach a second
\* bitmap byte
FillerCounts == {0, 8}

GlyfFonts ==
    {[glyphs |-> [k \in 1..f |-> EmptyGlyph(<<0, 0, 0, 0>>)] \o g, indexToLocFormat |-> 0] :
        f \in FillerCounts,
        g \in UNION {[1..k -> GlyphSamples] : k \in 1..MaxGlyphs}}

\* the keyword arguments getSFNTData is called with
GlyfOptions ==
    {[glyphBBox |-> "", alt255UInt16 |-> FALSE],
     [glyphBBox |-> "", alt255UInt16 |-> TRUE],
     [glyphBBox |-> "empty", alt255UInt16 |-> FALSE],
     [glyphBBox |-> "nocomposite", alt255UInt16 |-> FALSE]}

ManyGlyphs == 32

\* fonts of more than 32 glyphs, whose bitmap has more than 4 bytes
ManyGlyphFonts ==
    {[glyphs |-> [k \in 1..ManyGlyphs |-> EmptyGlyph(<<0, 0, 0, 0>>)] \o <<g>>,
      indexToLocFormat |-> 0] :
        g \in {SquareGlyph(Moved(SquareBox, 3, -100)),
               CompositeGlyph(<<0, 0, 2000, 1000>>, FALSE)}}

GlyfCalls ==
    {[op |-> "transformGlyf", font |-> f, glyphBBox |-> o.glyphBBox,
      alt255UInt16 |-> o.alt255UInt16] :
        f \in GlyfFonts, o \in GlyfOptions}
    \cup
    {[op |-> "transformGlyf", font |-> f, glyphBBox |-> b, alt255UInt16 |-> FALSE] :
        f \in ManyGlyphFonts, b \in {"", "empty"}}

\* the font transformGlyf was called with: the caller's argument, or the
\* font the loop of getWOFFCollectionData is at
fontAtHand == IF args.op = "getWOFFCollectionData" THEN font ELSE args.font

numGlyphs == Len(fontAtHand.glyphs)

InitGlyf ==
    /\ pc = "transformGlyf"
    /\ args \in GlyfCalls
    /\ ret = NoRet
    /\ glyphIndex = 0
    /\ nContourStream = <<>>
    /\ nPointsStream = <<>>
    /\ flagStream = <<>>
    /\ glyphStream = <<>>
    /\ compositeStream = <<>>
    /\ bboxStream = <<>>
    /\ instructionStream = <<>>
    /\ bboxBitmap = Zeros(4 * ((Len(args.font.glyphs) + 31) \div 32))
    /\ idleSFNT
    /\ fonts = <<>>
    /\ idleScripts

\* the glyph the loop is at, and its ID
glyph == fontAtHand.glyphs[glyphIndex + 1]
glyphId == glyphIndex

\* instructionLength and instructionStream of a glyph with instructions
instructionLength(g) ==
    pack255UInt16(Len(g.program), IF args.alt255UInt16 THEN 1 ELSE 0).val

\* the bounding box part of the loop body, for a glyph that is not empty
WriteBBox ==
    IF writeBBoxOf(glyph, args.glyphBBox)
    THEN /\ bboxBitmap' = SetBBoxBit(bboxBitmap, glyphId)
         /\ bboxStream' = bboxStream \o PackBBox(glyph.bbox)
    ELSE UNCHANGED <<bboxBitmap, bboxStream>>

GlyphEmpty ==
    /\ pc = "transformGlyf"
    /\ glyphIndex < numGlyphs
    /\ glyph.numberOfContours = 0
    /\ nContourStream' = nContourStream \o Packh(glyph.numberOfContours)
    /\ IF emptyBBoxOf(glyph, args.glyphBBox)
       THEN /\ bboxBitmap' = SetBBoxBit(bboxBitmap, glyphId)
            /\ bboxStream' = bboxStream \o PackBBox(<<0, 0, 0, 0>>)
       ELSE UNCHANGED <<bboxBitmap, bboxStream>>
    /\ glyphIndex' = glyphIndex + 1
    /\ UNCHANGED <<pc, args, ret, nPointsStream, flagStream, glyphStream,
                   compositeStream, instructionStream, sfntVars, collVars, scriptVars>>

GlyphComposite ==
    /\ pc = "transformGlyf"
    /\ glyphIndex < numGlyphs
    /\ glyph.numberOfContours # 0
    /\ isComposite(glyph)
    /\ nContourStream' = nContourStream \o Packh(glyph.numberOfContours)
    /\ compositeStream' = compositeStream \o compositeData(glyph)
    /\ IF glyph.hasProgram /\ Len(glyph.components) > 0
       THEN /\ glyphStream' = glyphStream \o instructionLength(glyph)
            /\ instructionStream' = instructionStream \o glyph.program
       ELSE UNCHANGED <<glyphStream, instructionStream>>
    /\ WriteBBox
    /\ glyphIndex' = glyphIndex + 1
    /\ UNCHANGED <<pc, args, ret, nPointsStream, flagStream, sfntVars, collVars, scriptVars>>

GlyphSimple ==
    /\ pc = "transformGlyf"
    /\ glyphIndex < numGlyphs
    /\ glyph.numberOfContours # 0
    /\ ~isComposite(glyph)
    /\ LET nPoints == nPointsData(glyph.endPtsOfContours, args.alt255UInt16)
           triplets == tripletLoop(glyph, 0, 0, 0)
       IN  IF ~nPoints.ok
           THEN \* the exception leaves transformGlyf
                /\ pc' = "done"
                /\ ret' = nPoints
                /\ UNCHANGED <<args, glyfVars, sfntVars, collVars, scriptVars>>
           ELSE /\ nContourStream' = nContourStream \o Packh(glyph.numberOfContours)
                /\ nPointsStream' = nPointsStream \o Flatten(nPoints.val)
                /\ flagStream' = flagStream \o triplets[1]
                /\ glyphStream' = glyphStream \o triplets[2] \o instructionLength(glyph)
                /\ instructionStream' = instructionStream \o glyph.program
                /\ WriteBBox
                /\ glyphIndex' = glyphIndex + 1
                /\ UNCHANGED <<pc, args, ret, compositeStream, sfntVars, collVars, scriptVars>>

\* variant: the boxes stand before the bitmap
transformGlyfData_boxesFirst ==
    PackL(0) \o PackH(numGlyphs) \o PackH(fontAtHand.indexToLocFormat)
    \o PackL(Len(nContourStream)) \o PackL(Len(nPointsStream))
    \o PackL(Len(flagStream)) \o PackL(Len(glyphStream))
    \o PackL(Len(compositeStream)) \o PackL(Len(bboxStream) + Len(bboxBitmap))
    \o PackL(Len(instructionStream))
    \o nContourStream \o nPointsStream \o flagStream
    \o glyphStream \o compositeStream
    \o bboxStream \o bboxBitmap
    \o instructionStream

\* after the loop: the header and the streams
transformGlyfData ==
    PackL(0) \o PackH(numGlyphs) \o PackH(fontAtHand.indexToLocFormat)
    \o PackL(Len(nContourStream)) \o PackL(Len(nPointsStream))
    \o PackL(Len(flagStream)) \o PackL(Len(glyphStream))
    \o PackL(Len(compositeStream)) \o PackL(Len(bboxStream) + Len(bboxBitmap))
    \o PackL(Len(instructionStream))
    \o nContourStream \o nPointsStream \o flagStream
    \o glyphStream \o compositeStream
    \o bboxBitmap \o bboxStream
    \o instructionStream

TransformGlyfReturn ==
    /\ pc = "transformGlyf"
    /\ args.op = "transformGlyf"
    /\ glyphIndex = numGlyphs
    /\ pc' = "done"
    /\ ret' = Ok(transformGlyfData)
    /\ UNCHANGED <<args, glyfVars, sfntVars, collVars, scriptVars>>

NextGlyf ==
    \/ GlyphEmpty
    \/ GlyphComposite
    \/ GlyphSimple
    \/ TransformGlyfReturn

SpecGlyf == InitGlyf /\ [][NextGlyf]_vars

-----------------------------------------------------------------------------
(* Claims about the bounding boxes of transformGlyf. *)

\* the bit of a glyph in the bbox bitmap
BBoxBit(bitmap, id) == (bitmap[(id \div 8) + 1] \div Pow2(7 - (id % 8))) % 2 = 1

\* b is the tight box around the points
IsTightBox(b, coords) ==
    /\ \A k \in 1..Len(coords) :
         /\ b[1] <= coords[k][1] /\ coords[k][1] <= b[3]
         /\ b[2] <= coords[k][2] /\ coords[k][2] <= b[4]
    /\ \E k \in 1..Len(coords) : coords[k][1] = b[1]
    /\ \E k \in 1..Len(coords) : coords[k][2] = b[2]
    /\ \E k \in 1..Len(coords) : coords[k][1] = b[3]
    /\ \E k \in 1..Len(coords) : coords[k][2] = b[4]

\* the eight bytes of a box: four big-endian signed 16-bit values
BoxBytes(b) ==
    LET U(v) == IF v < 0 THEN v + 65536 ELSE v
    IN <<U(b[1]) \div 256, U(b[1]) % 256, U(b[2]) \div 256, U(b[2]) % 256,
         U(b[3]) \div 256, U(b[3]) % 256, U(b[4]) \div 256, U(b[4]) % 256>>

\* the loop body has run for the glyph at glyphIndex
GlyphDone == pc = "transformGlyf" /\ glyphIndex' = glyphIndex + 1

BBoxOmitted == ~BBoxBit(bboxBitmap', glyphIndex) /\ bboxStream' = bboxStream
BBoxWritten(b) == BBoxBit(bboxBitmap', glyphIndex) /\ bboxStream' = bboxStream \o BoxBytes(b)

(* C6: a simple glyph whose stored box equals the bounds recomputed from    *)
(* its coordinates gets bitmap bit 0 and adds no bytes to the bbox stream;  *)
(* one whose stored box differs in any coordinate gets its bit set and adds *)
(* exactly the 8 bytes of its stored box; a composite glyph always gets its *)
(* bit set and its stored box appended, except under                        *)
(* glyphBBox="nocomposite".                                                 *)
C6_BBoxOmission ==
    [][ (GlyphDone /\ glyph.numberOfContours # 0) =>
          /\ (glyph.numberOfContours > 0 /\ IsTightBox(glyph.bbox, glyph.coordinates))
                => BBoxOmitted
          /\ (glyph.numberOfContours > 0 /\ ~IsTightBox(glyph.bbox, glyph.coordinates))
                => BBoxWritten(glyph.bbox)
          /\ (glyph.numberOfContours < 0 /\ args.glyphBBox # "nocomposite")
                => BBoxWritten(glyph.bbox)
          /\ (glyph.numberOfContours < 0 /\ args.glyphBBox = "nocomposite")
                => BBoxOmitted
      ]_vars

\* default options: the exact square kept no box, the square whose stored
\* xMax is 100 short got bit 1 and its eight bytes
C6_Witness ==
    /\ pc = "done"
    /\ ret.ok
    /\ args.glyphBBox = ""
    /\ args.font.glyphs = <<SquareGlyph(SquareBox),
                            SquareGlyph(Moved(SquareBox, 3, -100))>>
    /\ bboxBitmap = <<64, 0, 0, 0>>
    /\ bboxStream = <<0, 0, 0, 0, 3, 132, 3, 232>>

\* an empty glyph leaves these streams alone
EmptyAddsNothing ==
    /\ nPointsStream' = nPointsStream
    /\ flagStream' = flagStream
    /\ glyphStream' = glyphStream
    /\ compositeStream' = compositeStream
    /\ instructionStream' = instructionStream

(* C7 as claimed: for a glyph with zero contours the bit is set and a box   *)
(* appended only if the stored box is non-zero; an empty glyph whose stored *)
(* box is all-zero never has its bit set and adds nothing to the bbox       *)
(* stream; an empty glyph adds nothing to the nPoints, flag, glyph,         *)
(* composite or instruction streams.                                        *)
C7_EmptyByStoredBox ==
    [][ (GlyphDone /\ glyph.numberOfContours = 0) =>
          /\ (BBoxBit(bboxBitmap', glyphIndex) \/ bboxStream' # bboxStream)
                => glyph.bbox # <<0, 0, 0, 0>>
          /\ glyph.bbox = <<0, 0, 0, 0>> => BBoxOmitted
          /\ EmptyAddsNothing
      ]_vars

(* C7 amended: for a glyph with zero contours the bit is set and a box of   *)
(* eight zero bytes appended exactly when glyphBBox="empty" is passed,      *)
(* whatever the stored box is; otherwise the bit stays clear and nothing is *)
(* added to the bbox stream, also when the stored box is non-zero; an empty *)
(* glyph adds nothing to the nPoints, flag, glyph, composite or             *)
(* instruction streams.                                                     *)
C7_EmptyByOption ==
    [][ (GlyphDone /\ glyph.numberOfContours = 0) =>
          /\ args.glyphBBox = "empty" => BBoxWritten(<<0, 0, 0, 0>>)
          /\ args.glyphBBox # "empty" => BBoxOmitted
          /\ EmptyAddsNothing
      ]_vars

\* glyphBBox="empty": an empty glyph with an all-zero stored box got its bit
\* and eight zero bytes
C7_Witness ==
    /\ pc = "done"
    /\ ret.ok
    /\ args.glyphBBox = "empty"
    /\ args.font.glyphs = <<EmptyGlyph(<<0, 0, 0, 0>>)>>
    /\ bboxBitmap = <<128, 0, 0, 0>>
    /\ bboxStream = <<0, 0, 0, 0, 0, 0, 0, 0>>
    /\ nPointsStream = <<>> /\ flagStream = <<>> /\ glyphStream = <<>>
    /\ compositeStream = <<>> /\ instructionStream = <<>>

-----------------------------------------------------------------------------
(* woff.py: transformHmtx *)

MaxMetrics == 3

\* struct.pack(">H", v) raises struct.error outside 0..65535
fitsH(v) == v >= 0 /\ v <= 65535

\* glyf[name].xMin, 0 for a glyph without the attribute
xMinOf(g) == IF g.bbox # <<>> THEN g.bbox[1] ELSE 0

\* font.getTableData("hmtx"): a longHorMetric for each of the first
\* numberOfHMetrics glyphs, a lone left side bearing for each of the others
hmtxOrigData(f) ==
    Flatten([k \in 1..Len(f.metrics) |->
        IF k <= f.numberOfHMetrics
        THEN PackH(f.metrics[k][1]) \o Packh(f.metrics[k][2])
        ELSE Packh(f.metrics[k][2])])

\* the flags byte with a bit set for each array that is present
hmtxFlags_present(hasLsb, hasLeftSideBearing) ==
    BitOr(IF hasLsb THEN 1 ELSE 0, IF hasLeftSideBearing THEN 2 ELSE 0)

\* the flags byte: bit 0 without lsb[], bit 1 without leftSideBearing[]
hmtxFlags(hasLsb, hasLeftSideBearing) ==
    BitOr(IF ~hasLsb THEN 1 ELSE 0, IF ~hasLeftSideBearing THEN 2 ELSE 0)

\* f.metricsOrder is the order in which the dict hmtx.metrics yields its names
transformHmtx(f) ==
    LET names == f.metricsOrder
        lsbOf(i) == f.metrics[names[i]][2]
        advanceOf(i) == f.metrics[names[i]][1]
        xMin(i) == xMinOf(f.glyphs[names[i]])
        origData == hmtxOrigData(f)
        count == Len(names)
        within == {i \in 1..count : i - 1 < f.numberOfHMetrics}
        hasLeftSideBearing == f.numberOfHMetrics # Len(f.glyphs)
        hasLsb == \E i \in within : lsbOf(i) # xMin(i)
        flags == hmtxFlags(hasLsb, hasLeftSideBearing)
        head == [i \in 1..Cardinality(within) |-> i]
        rest == [i \in 1..(count - Cardinality(within)) |-> Cardinality(within) + i]
        packed == [i \in 1..Len(head) |-> advanceOf(head[i])]
                  \o (IF hasLsb THEN [i \in 1..Len(head) |-> lsbOf(head[i])] ELSE <<>>)
                  \o (IF hasLeftSideBearing THEN [i \in 1..Len(rest) |-> lsbOf(rest[i])]
                      ELSE <<>>)
        data == PackB(flags) \o Flatten([i \in 1..Len(packed) |-> PackH(packed[i])])
    IN IF \E i \in 1..count : lsbOf(i) # xMin(i) THEN Ok(origData)
       ELSE IF \E i \in 1..Len(packed) : ~fitsH(packed[i]) THEN Raise("struct.error")
       ELSE IF ~(Len(data) < Len(origData)) THEN Raise("AssertionError")
       ELSE Ok(data)

(* The fonts handed to transformHmtx: per glyph the glyf bounding box (none *)
(* for a glyph without outline data) and its (advance, lsb) metric.         *)

MetricSamples ==
    {[bbox |-> <<>>, metric |-> <<500, 0>>],
     [bbox |-> <<0, 0, 1000, 1000>>, metric |-> <<1000, 0>>],
     [bbox |-> <<10, 0, 900, 1000>>, metric |-> <<65535, 10>>],
     [bbox |-> <<-1, 0, 900, 1000>>, metric |-> <<500, -1>>],
     [bbox |-> <<0, 0, 1000, 1000>>, metric |-> <<1000, 10>>],
     [bbox |-> <<>>, metric |-> <<500, 5>>]}

Orders(n) == {p \in [1..n -> 1..n] : \A i, j \in 1..n : p[i] = p[j] => i = j}

HmtxFont(n, g, o, h) ==
    [glyphs |-> [k \in 1..n |-> [bbox |-> g[k].bbox]],
     metrics |-> [k \in 1..n |-> g[k].metric],
     metricsOrder |-> o,
     numberOfHMetrics |-> h]

\* a font of 1 to MaxMetrics glyphs, any numberOfHMetrics from 1 up to their
\* number, any order of the dict
InitHmtx ==
    /\ pc = "call"
    /\ \E n \in 1..MaxMetrics :
         \E g \in [1..n -> MetricSamples], o \in Orders(n), h \in 1..n :
            args = [op |-> "transformHmtx", font |-> HmtxFont(n, g, o, h)]
    /\ ret = NoRet
    /\ idleGlyf
    /\ idleSFNT
    /\ fonts = <<>>
    /\ idleScripts

TransformHmtxCall ==
    /\ pc = "call"
    /\ args.op = "transformHmtx"
    /\ Return(transformHmtx(args.font))

NextHmtx == TransformHmtxCall

SpecHmtx == InitHmtx /\ [][NextHmtx]_vars

-----------------------------------------------------------------------------
(* Claims about transformHmtx. *)

\* every glyph's left side bearing equals its xMin
AllLsbMatch(f) ==
    \A k \in 1..Len(f.glyphs) : f.metrics[k][2] = xMinOf(f.glyphs[k])

FlagBit(b, k) == (b \div Pow2(k)) % 2 = 1

(* C9 as claimed: transformHmtx returns the original hmtx bytes unchanged   *)
(* when some glyph's left side bearing differs from its xMin (0 without     *)
(* xMin); when every left side bearing equals its xMin it returns a table   *)
(* whose first byte has bit 0 set and that holds no left side bearings for  *)
(* the first numberOfHMetrics glyphs (only the advances, and at most the    *)
(* bearings of the glyphs after them).                                      *)
C9_HmtxApplicability ==
    Done("transformHmtx") =>
        LET f == args.font
            n == Len(f.glyphs)
        IN /\ ~AllLsbMatch(f) => ret = Ok(hmtxOrigData(f))
           /\ AllLsbMatch(f) =>
                /\ ret.ok
                /\ Len(ret.val) \in {1 + 2 * f.numberOfHMetrics,
                                     1 + 2 * f.numberOfHMetrics + 2 * (n - f.numberOfHMetrics)}
                /\ FlagBit(ret.val[1], 0)

\* every bearing matches, the glyph after numberOfHMetrics has the negative
\* bearing -1, and the call raised instead of returning a table
C9_Witness ==
    /\ Done("transformHmtx")
    /\ AllLsbMatch(args.font)
    /\ args.font.numberOfHMetrics = 1
    /\ args.font.metrics = << <<500, 0>>, <<500, -1>> >>
    /\ args.font.metricsOrder = <<1, 2>>
    /\ ret = Raise("struct.error")

(* C11: every transformed hmtx table that transformHmtx emits starts with a  *)
(* flags byte whose bits 2 to 7 are zero and whose value is not 0x00 (so    *)
(* neither 0x00 nor 0xFF comes out of the encoder).                         *)
C11_FlagsByteValid ==
    (Done("transformHmtx") /\ ret.ok /\ AllLsbMatch(args.font)) =>
        /\ Len(ret.val) >= 1
        /\ \A k \in 2..7 : ~FlagBit(ret.val[1], k)
        /\ ret.val[1] # 0
        /\ ret.val[1] # 255

\* one glyph with bearing 0 = xMin, numberOfHMetrics 1: the table is the
\* flags byte 0x03 and the advance 500
C11_Witness ==
    /\ Done("transformHmtx")
    /\ AllLsbMatch(args.font)
    /\ args.font.metrics = << <<500, 0>> >>
    /\ ret = Ok(<<3, 1, 244>>)

(* C10 as claimed: when the transform applies to a font with                *)
(* numberOfHMetrics < numGlyphs and every glyph beyond numberOfHMetrics has *)
(* a left side bearing equal to its xMin, the flags byte has bit 1 set and  *)
(* the trailing leftSideBearing array is omitted from the output.           *)
C10_TrailingOmitted ==
    (/\ Done("transformHmtx")
     /\ ret.ok
     /\ AllLsbMatch(args.font)
     /\ args.font.numberOfHMetrics < Len(args.font.glyphs))
        => /\ FlagBit(ret.val[1], 1)
           /\ Len(ret.val) = 1 + 2 * args.font.numberOfHMetrics

\* two glyphs with bearings 0 = xMin and numberOfHMetrics 1: flags 0x01 and
\* the bearing of the second glyph still in the output
C10_Witness ==
    /\ Done("transformHmtx")
    /\ args.font.numberOfHMetrics = 1
    /\ args.font.metrics = << <<500, 0>>, <<1000, 0>> >>
    /\ args.font.metricsOrder = <<1, 2>>
    /\ ret = Ok(<<1, 1, 244, 0, 0>>)

-----------------------------------------------------------------------------
(* sfnt.py: getSFNTData, woff.py: transformTable, defaultData.py:           *)
(* defaultTestData.                                                         *)

MaxSfntGlyphs == 2
MaxFonts == 2
MaxBlock == 5

\* TTFont.keys() lists the pseudo table GlyphOrder with the table tags
Tag_GlyphOrder == <<71, 108, 121, 112, 104, 79, 114, 100, 101, 114>>

sfntDirectorySize == 12
sfntDirectoryEntrySize == 16
woffHeaderSize == 48

\* bytes to the next multiple of 4
calcPaddingLength(n) == (4 - (n % 4)) % 4

\* the bytes of one glyph in the glyf table: header, then the outline in
\* the long form (one flag byte and two int16 deltas per point) or the
\* components, padded to a multiple of 4
glyphCompile(g) ==
    LET n == Len(g.coordinates)
        dx(k) == g.coordinates[k][1] - (IF k = 1 THEN 0 ELSE g.coordinates[k - 1][1])
        dy(k) == g.coordinates[k][2] - (IF k = 1 THEN 0 ELSE g.coordinates[k - 1][2])
        body ==
            IF g.numberOfContours = 0
            THEN (IF g.bbox = <<>> THEN <<>> ELSE Packh(0) \o PackBBox(g.bbox))
            ELSE IF isComposite(g)
            THEN Packh(-1) \o PackBBox(g.bbox) \o compositeData(g)
                 \o (IF g.hasProgram THEN PackH(Len(g.program)) \o g.program ELSE <<>>)
            ELSE Packh(g.numberOfContours) \o PackBBox(g.bbox)
                 \o Flatten([k \in 1..Len(g.endPtsOfContours) |-> PackH(g.endPtsOfContours[k])])
                 \o PackH(Len(g.program)) \o g.program
                 \o g.flags
                 \o Flatten([k \in 1..n |-> Packh(dx(k))])
                 \o Flatten([k \in 1..n |-> Packh(dy(k))])
    IN  body \o Zeros(calcPaddingLength(Len(body)))

\* the glyf table, and the short loca table of its glyph offsets
RECURSIVE glyfCompile(_)
glyfCompile(glyphs) ==
    IF glyphs = <<>> THEN <<>>
    ELSE glyfCompile(SubSeq(glyphs, 1, Len(glyphs) - 1)) \o glyphCompile(glyphs[Len(glyphs)])

locaCompile(glyphs) ==
    Flatten([k \in 1..(Len(glyphs) + 1) |->
                PackH(Len(glyfCompile(SubSeq(glyphs, 1, k - 1))) \div 2)])

\* font.getTableData(tag): head, hhea, maxp, hmtx, glyf and loca compiled
\* from the font object, any other table the bytes the file holds
getTableData(f, tag) ==
    IF tag = Tag_head
    THEN Zeros(16) \o PackH(f.headFlags) \o Zeros(32) \o PackH(f.indexToLocFormat) \o Zeros(2)
    ELSE IF tag = Tag_hmtx THEN hmtxOrigData(f)
    ELSE IF tag = Tag_hhea THEN Zeros(34) \o PackH(f.numberOfHMetrics)
    ELSE IF tag = Tag_maxp THEN <<0, 0, 80, 0>> \o PackH(Len(f.metrics))
    ELSE IF tag = Tag_loca THEN locaCompile(f.glyphs)
    ELSE IF tag = Tag_glyf THEN glyfCompile(f.glyphs)
    ELSE IF tag = Tag_name /\ "nameSuffix" \in DOMAIN f
         THEN tag \o <<33>> \o Flatten([k \in 1..Len(f.nameSuffix) |->
                                          <<32, 48 + f.nameSuffix[k]>>])
    ELSE tag \o <<33>>

RECURSIVE SortedTags(_)
SortedTags(s) ==
    IF s = <<>> THEN <<>>
    ELSE LET rest == SortedTags(SubSeq(s, 1, Len(s) - 1))
             above == {k \in 1..Len(rest) : TagLess(s[Len(s)], rest[k])}
             at == IF above = {} THEN Len(rest) ELSE SetMin(above) - 1
         IN SubSeq(rest, 1, at) \o <<s[Len(s)]>> \o SubSeq(rest, at + 1, Len(rest))

\* the keys that are table tags, sorted
sortedTableTags(f) ==
    SortedTags(SelectSeq(f.keys, LAMBDA i : Len(i) = 4))

\* variant: the tables stay sorted
tableOrderOf_sorted(f, unsortGlyfLoca) ==
    IF unsortGlyfLoca /\ ~InSeq(Tag_loca, sortedTableTags(f)) THEN Raise("AssertionError")
    ELSE Ok(sortedTableTags(f))

\* tableOrder of getSFNTData: loca moved in front of glyf on request
tableOrderOf(f, unsortGlyfLoca) ==
    LET sorted == sortedTableTags(f)
    IN  IF ~unsortGlyfLoca THEN Ok(sorted)
        ELSE IF ~InSeq(Tag_loca, sorted) THEN Raise("AssertionError")
        ELSE IF ~InSeq(Tag_glyf, sorted) THEN Raise("ValueError")
        ELSE Ok(ListInsert(ListPop(sorted, IndexOf(Tag_loca, sorted)),
                           IndexOf(Tag_glyf, sorted), Tag_loca))

\* the table the loop of getSFNTData is at
tag == tableOrder[Len(tableData) + 1]

\* transformTable: does the tag get a transform
transformOf(f, t) ==
    (t = Tag_hmtx /\ InSeq(Tag_glyf, f.keys)) \/ InSeq(t, transformedTables)

\* transformTable's transformed loca
locaTransformedData_kept(origData) == origData
locaTransformedData(origData) == <<>>

TableDone(t, origData, transformedData) ==
    tableData' = Append(tableData,
        [tag |-> t, origData |-> origData, transformedData |-> transformedData])

(* The fonts handed to getSFNTData. *)

SfntGlyphSamples ==
    {[glyph |-> EmptyGlyph(<<>>), metric |-> <<500, 0>>],
     [glyph |-> SquareGlyph(SquareBox), metric |-> <<1000, 0>>],
     [glyph |-> SquareGlyph(Moved(SquareBox, 3, -100)), metric |-> <<1000, 10>>],
     [glyph |-> CurveGlyph(CurveBox), metric |-> <<500, -1300>>],
     [glyph |-> CompositeGlyph(<<0, 0, 2000, 1000>>, FALSE), metric |-> <<2000, 0>>]}

TTFKeys == <<Tag_GlyphOrder, Tag_glyf, Tag_head, Tag_hhea, Tag_hmtx, Tag_loca, Tag_maxp,
             Tag_name>>
CFFKeys == <<Tag_GlyphOrder, Tag_CFF, Tag_head, Tag_hhea, Tag_hmtx, Tag_maxp, Tag_name>>

\* the TrueType source font has tables that sort before glyf
SourceTTFKeys == <<Tag_GlyphOrder, Tag_cmap, Tag_glyf, Tag_head, Tag_hhea, Tag_hmtx,
                   Tag_loca, Tag_maxp, Tag_name>>

\* head.flags of the source fonts: bit 11 clear, or set already
HeadFlagSamples == {11, 2059}

\* the metrics of the CFF source font: its glyphs are not in a glyf table
CFFMetricSamples == {<<500, 0>>, <<1000, 10>>}

\* two of the orders in which hmtx.metrics may yield its names
SfntOrders(n) == {[i \in 1..n |-> i], [i \in 1..n |-> n + 1 - i]}

TTFFonts ==
    UNION {{[keys |-> SourceTTFKeys,
             glyphs |-> [i \in 1..n |-> g[i].glyph],
             indexToLocFormat |-> 0,
             headFlags |-> fl,
             metrics |-> [i \in 1..n |-> g[i].metric],
             metricsOrder |-> o,
             numberOfHMetrics |-> h] :
               g \in [1..n -> SfntGlyphSamples],
               fl \in HeadFlagSamples, o \in SfntOrders(n), h \in {1, n}} :
           n \in 1..MaxSfntGlyphs}

CFFFonts ==
    UNION {{[keys |-> CFFKeys,
             glyphs |-> <<>>,
             indexToLocFormat |-> 0,
             headFlags |-> fl,
             metrics |-> m,
             metricsOrder |-> o,
             numberOfHMetrics |-> h] :
               m \in [1..n -> CFFMetricSamples],
               fl \in HeadFlagSamples, o \in SfntOrders(n), h \in {1, n}} :
           n \in 1..MaxSfntGlyphs}

SfntFonts == TTFFonts \cup CFFFonts

\* the keyword arguments getSFNTData is called with
SfntOptions ==
    {[unsortGlyfLoca |-> FALSE, glyphBBox |-> ""],
     [unsortGlyfLoca |-> TRUE, glyphBBox |-> ""],
     [unsortGlyfLoca |-> FALSE, glyphBBox |-> "empty"],
     [unsortGlyfLoca |-> FALSE, glyphBBox |-> "nocomposite"]}

SfntCalls ==
    {[op |-> "getSFNTData", font |-> f, unsortGlyfLoca |-> o.unsortGlyfLoca,
      glyphBBox |-> o.glyphBBox, alt255UInt16 |-> FALSE] :
        f \in SfntFonts, o \in SfntOptions}

InitSFNT ==
    /\ pc = "call"
    /\ args \in SfntCalls
    /\ ret = NoRet
    /\ idleGlyf
    /\ idleSFNT
    /\ fonts = <<>>
    /\ idleScripts

\* getSFNTData up to its loop
GetSFNTDataBegin ==
    /\ pc = "call"
    /\ args.op = "getSFNTData"
    /\ font' = args.font
    /\ LET order == tableOrderOf(args.font, args.unsortGlyfLoca)
       IN IF order.ok
          THEN pc' = "getSFNTData" /\ tableOrder' = order.val /\ ret' = ret
          ELSE pc' = "done" /\ tableOrder' = tableOrder /\ ret' = order
    /\ UNCHANGED <<args, glyfVars, tableData, compData, directory, header, collVars, scriptVars>>

InLoop == pc = "getSFNTData" /\ Len(tableData) < Len(tableOrder)

TransformTableHead ==
    /\ InLoop
    /\ tag = Tag_head
    /\ font' = [font EXCEPT !.headFlags = BitOr(@, 2048)]
    /\ LET origData == getTableData(font', tag)
       IN TableDone(tag, origData, origData)
    /\ UNCHANGED <<callVars, glyfVars, tableOrder, compData, directory, header, collVars, scriptVars>>

\* transformTable calls transformGlyf
TransformTableGlyf ==
    /\ InLoop
    /\ tag = Tag_glyf
    /\ pc' = "transformGlyf"
    /\ bboxBitmap' = Zeros(4 * ((numGlyphs + 31) \div 32))
    /\ UNCHANGED <<args, ret, glyphIndex, nContourStream, nPointsStream, flagStream,
                   glyphStream, compositeStream, bboxStream, instructionStream, sfntVars, collVars,
                   scriptVars>>

\* transformGlyf returns to transformTable, transformTable to the loop
TransformTableGlyfReturn ==
    /\ pc = "transformGlyf"
    /\ args.op = "getSFNTData"
    /\ glyphIndex = numGlyphs
    /\ pc' = "getSFNTData"
    /\ TableDone(Tag_glyf, getTableData(font, Tag_glyf), transformGlyfData)
    /\ UNCHANGED <<args, ret, glyfVars, font, tableOrder, compData, directory, header, collVars,
            scriptVars>>

TransformTableLoca ==
    /\ InLoop
    /\ tag = Tag_loca
    /\ LET origData == getTableData(font, tag)
       IN TableDone(tag, origData, locaTransformedData(origData))
    /\ UNCHANGED <<callVars, glyfVars, font, tableOrder, compData, directory, header, collVars,
            scriptVars>>

TransformTableHmtx ==
    /\ InLoop
    /\ tag = Tag_hmtx
    /\ transformOf(font, tag)
    /\ LET transformedData == transformHmtx(font)
       IN IF transformedData.ok
          THEN /\ TableDone(tag, getTableData(font, tag), transformedData.val)
               /\ UNCHANGED <<callVars, glyfVars, font, tableOrder, compData, directory,
                              header, collVars, scriptVars>>
          ELSE /\ pc' = "done"
               /\ ret' = transformedData
               /\ UNCHANGED <<args, glyfVars, sfntVars, collVars, scriptVars>>

\* a table without a transform
TransformTableNone ==
    /\ InLoop
    /\ tag # Tag_head
    /\ ~transformOf(font, tag)
    /\ LET origData == getTableData(font, tag)
       IN TableDone(tag, origData, origData)
    /\ UNCHANGED <<callVars, glyfVars, font, tableOrder, compData, directory, header, collVars,
            scriptVars>>

\* "".join of the transformed data in table order
totalData == Flatten([k \in 1..Len(tableData) |-> tableData[k].transformedData])

\* lengths brotli.compress may return for the data
CompressedLengths(data) == {Len(data) - 1, Len(data), Len(data) + 4}

\* variant: the compressor's output is kept when it is as long as the data
storedPayload_notLonger(l, data) ==
    IF l > Len(data)
    THEN [brotli |-> FALSE, length |-> Len(data), totalData |-> data]
    ELSE [brotli |-> TRUE, length |-> l, totalData |-> data]

\* compData after "if len(compData) >= len(totalData): compData = totalData",
\* l the length of the compressor's output
storedPayload(l, data) ==
    IF l >= Len(data)
    THEN [brotli |-> FALSE, length |-> Len(data), totalData |-> data]
    ELSE [brotli |-> TRUE, length |-> l, totalData |-> data]

\* getSFNTData after its loop: the payload, and the return
GetSFNTDataCompress ==
    /\ pc = "getSFNTData"
    /\ Len(tableData) = Len(tableOrder)
    /\ LET data == totalData
       IN \E l \in CompressedLengths(data) :
            compData' = storedPayload(l, data)
    /\ pc' = "defaultTestData"
    /\ UNCHANGED <<args, ret, glyfVars, font, tableOrder, tableData, directory, header, collVars,
            scriptVars>>

\* testTTFDataWOFFDirectory, testCFFDataWOFFDirectory: the tags in table order
testDataWOFFDirectory(f) ==
    LET tags == sortedTableTags(f)
    IN [k \in 1..Len(tags) |->
          [tag |-> tags[k], origLength |-> 0, transformLength |-> 0, transformFlag |-> 0]]

\* tableData[tag]
tableDataOf(t) == tableData[CHOOSE k \in 1..Len(tableData) : tableData[k].tag = t]

\* variant: the flag is set whenever the transformed data is not longer
filledEntry_notShorter(entry) ==
    LET origLength == Len(tableDataOf(entry.tag).origData)
        transformLength == Len(tableDataOf(entry.tag).transformedData)
    IN [entry EXCEPT !.origLength = origLength,
                     !.transformLength = transformLength,
                     !.transformFlag =
                         IF entry.tag = Tag_hmtx /\ origLength >= transformLength THEN 1 ELSE @]

\* defaultTestData's loop over the directory, for one entry
filledEntry(entry) ==
    LET origLength == Len(tableDataOf(entry.tag).origData)
        transformLength == Len(tableDataOf(entry.tag).transformedData)
    IN [entry EXCEPT !.origLength = origLength,
                     !.transformLength = transformLength,
                     !.transformFlag =
                         IF entry.tag = Tag_hmtx /\ origLength > transformLength THEN 1 ELSE @]

\* variant: the original lengths are added up without padding
RECURSIVE totalSfntSizeOf_unpadded(_, _)
totalSfntSizeOf_unpadded(dir, size) ==
    IF dir = <<>> THEN size
    ELSE totalSfntSizeOf_unpadded(Tail(dir), size + Head(dir).origLength)

RECURSIVE totalSfntSizeOf(_, _)
totalSfntSizeOf(dir, size) ==
    IF dir = <<>> THEN size
    ELSE totalSfntSizeOf(Tail(dir),
            size + Head(dir).origLength + calcPaddingLength(size + Head(dir).origLength))

\* the directory as packTestDirectory takes it
packedDirectory(dir) ==
    packTestDirectory([k \in 1..Len(dir) |->
                          [dir[k] EXCEPT !.origLength = ToWide(@),
                                         !.transformLength = ToWide(@)]],
                      knownTableTags, FALSE, FALSE, FALSE,
                      packTestDirectory_Base128Bug_default)

\* defaultTestData(tableData=..., compressedData=...), no metadata, no
\* private data
DefaultTestData ==
    /\ pc = "defaultTestData"
    /\ args.op = "getSFNTData"
    /\ LET default == testDataWOFFDirectory(args.font)
           dir == [k \in 1..Len(default) |-> filledEntry(default[k])]
           length == woffHeaderSize + Len(packedDirectory(dir).val) + compData.length
       IN /\ directory' = dir
          /\ header' =
               [numTables |-> Len(dir),
                flavor |-> IF \E k \in 1..Len(tableData) : tableData[k].tag = Tag_CFF
                           THEN "OTTO" ELSE "\\000\\001\\000\\000",
                totalSfntSize |->
                    totalSfntSizeOf(dir, sfntDirectorySize + Len(dir) * sfntDirectoryEntrySize),
                totalCompressedSize |-> compData.length,
                length |-> length + calcPaddingLength(length)]
    /\ pc' = "done"
    /\ ret' = Ok(<<>>)
    /\ UNCHANGED <<args, glyfVars, font, tableOrder, tableData, compData, collVars, scriptVars>>

NextSFNT ==
    \/ GetSFNTDataBegin
    \/ TransformTableHead
    \/ TransformTableGlyf
    \/ GlyphEmpty
    \/ GlyphComposite
    \/ GlyphSimple
    \/ TransformTableGlyfReturn
    \/ TransformTableLoca
    \/ TransformTableHmtx
    \/ TransformTableNone
    \/ GetSFNTDataCompress
    \/ DefaultTestData

SpecSFNT == InitSFNT /\ [][NextSFNT]_vars

-----------------------------------------------------------------------------
(* Claims about the loca table. *)

\* the directory entry of a tag
EntryOf(t) == directory[CHOOSE k \in 1..Len(directory) : directory[k].tag = t]

(* C8: transformTable returns zero-length transformed data for the loca     *)
(* table of every font and the original loca bytes as the original data,    *)
(* so the loca directory entry filled in by defaultTestData has             *)
(* transformLength 0 and origLength equal to the original loca size.        *)
C8_LocaZeroLength ==
    /\ \A k \in 1..Len(tableData) :
         tableData[k].tag = Tag_loca =>
            /\ tableData[k].transformedData = <<>>
            /\ tableData[k].origData = getTableData(args.font, Tag_loca)
    /\ (pc = "done" /\ ret.ok /\ InSeq(Tag_loca, args.font.keys)) =>
            /\ EntryOf(Tag_loca).transformLength = 0
            /\ EntryOf(Tag_loca).origLength = 2 * (Len(args.font.glyphs) + 1)
            /\ EntryOf(Tag_loca).origLength > 0

\* a font of two glyphs went through getSFNTData and defaultTestData: glyf
\* is stored transformed and the loca entry reads 6 original bytes, 0 stored
C8_Witness ==
    /\ pc = "done"
    /\ ret.ok
    /\ Len(args.font.glyphs) = 2
    /\ \E k \in 1..Len(tableData) :
         /\ tableData[k].tag = Tag_glyf
         /\ tableData[k].transformedData # tableData[k].origData
    /\ \E k \in 1..Len(directory) :
         directory[k] = [tag |-> Tag_loca, origLength |-> 6, transformLength |-> 0,
                         transformFlag |-> 0]


-----------------------------------------------------------------------------
(* sfnt.py: getWOFFCollectionData.                                          *)
(*                                                                          *)
(* tableData is the shared list of [tag, data] entries, data the pair       *)
(* transformTable returned; tableIndices is the OrderedDict of the font at  *)
(* hand as a sequence of <<tag, index>> in insertion order.  font is <<>>   *)
(* between two fonts.                                                       *)

\* makeValidCollection: a glyph condensed to half its width
CondensedSquareGlyph ==
    [SquareGlyph(<<0, 0, 500, 1000>>) EXCEPT
        !.coordinates = << <<0, 0>>, <<0, 1000>>, <<500, 1000>>, <<500, 0>> >>]

CollectionFont(keys, glyphs, metrics) ==
    [keys |-> keys, glyphs |-> glyphs, indexToLocFormat |-> 0, headFlags |-> 11,
     nameSuffix |-> <<>>, metrics |-> metrics, metricsOrder |-> [i \in 1..Len(metrics) |-> i],
     numberOfHMetrics |-> Len(metrics)]

\* the source font, the font with the condensed glyph, a font with one more
\* glyph, and the CFF source font
CollectionFontSamples ==
    {CollectionFont(TTFKeys, <<SquareGlyph(SquareBox)>>, << <<1000, 0>> >>),
     CollectionFont(TTFKeys, <<CondensedSquareGlyph>>, << <<1000, 0>> >>),
     CollectionFont(TTFKeys, <<SquareGlyph(SquareBox), EmptyGlyph(<<>>)>>,
                    << <<1000, 0>>, <<500, 0>> >>),
     CollectionFont(CFFKeys, <<>>, << <<500, 0>> >>)}

\* the keyword arguments getWOFFCollectionData is called with
CollectionOptions ==
    {[MismatchGlyfLoca |-> FALSE, reverseNames |-> FALSE],
     [MismatchGlyfLoca |-> TRUE, reverseNames |-> FALSE],
     [MismatchGlyfLoca |-> FALSE, reverseNames |-> TRUE]}

\* transformTable is called without glyphBBox and alt255UInt16
transformTable_glyphBBox_default == ""
transformTable_alt255UInt16_default == FALSE

InitCollection ==
    /\ pc = "getWOFFCollectionData"
    /\ \E n \in 1..MaxFonts : \E fs \in [1..n -> CollectionFontSamples] :
       \E o \in CollectionOptions :
          args = [op |-> "getWOFFCollectionData", fonts |-> fs,
                  MismatchGlyfLoca |-> o.MismatchGlyfLoca,
                  reverseNames |-> o.reverseNames,
                  glyphBBox |-> transformTable_glyphBBox_default,
                  alt255UInt16 |-> transformTable_alt255UInt16_default,
                  first |-> <<>>]
    /\ ret = NoRet
    /\ idleGlyf
    /\ idleSFNT
    /\ fonts = args.fonts
    /\ idleScripts

\* the sorted table tags with loca moved behind glyf
collectionTags(f) ==
    LET sorted == sortedTableTags(f)
    IN  IF InSeq(Tag_glyf, sorted)
        THEN ListInsert(ListPop(sorted, IndexOf(Tag_loca, sorted)),
                        IndexOf(Tag_glyf, sorted) + 1, Tag_loca)
        ELSE sorted

\* font.sfntVersion
sfntVersion(f) == IF InSeq(Tag_CFF, f.keys) THEN <<79, 84, 84, 79>> ELSE <<0, 1, 0, 0>>

\* variant: the index replaces what an earlier call appended
makeNameUnique_replaced(f, index) == [f EXCEPT !.nameSuffix = <<index>>]

\* "Make the name table unique": namerecord.string = "%s %d" % (string, index)
makeNameUnique(f, index) == [f EXCEPT !.nameSuffix = Append(@, index)]

\* the next font: its name table is made unique by its index.  font is the
\* object fonts[i + 1]; what is changed in it is stored when the font is done
CollectionFontBegin ==
    /\ pc = "getWOFFCollectionData"
    /\ font = <<>>
    /\ Len(collectionDirectory) < Len(args.fonts)
    /\ LET i == Len(collectionDirectory)
           index == IF args.reverseNames THEN Len(args.fonts) - i - 1 ELSE i
       IN font' = makeNameUnique(fonts[i + 1], index)
    /\ tableIndices' = <<>>
    /\ UNCHANGED <<callVars, glyfVars, tableOrder, tableData, compData, directory, header,
                   collectionDirectory, locaIndices, fonts, scriptVars>>

InFont ==
    /\ pc = "getWOFFCollectionData"
    /\ font # <<>>
    /\ Len(tableIndices) < Len(collectionTags(font))

\* the table the loop over the tags is at
collectionTag == collectionTags(font)[Len(tableIndices) + 1]

\* variant: every table is appended
isNewTable_always(list, entry, forced) == TRUE

\* is the table appended to the shared list
isNewTable(list, entry, forced) == forced \/ ~InSeq(entry, list)

\* variant: the index is that of the entry appended last
tableIndexOf_last(list, entry, forced) == Len(list) - 1

\* tableIndices[tag]: len(tableData) - 1, or tableData.index([tag, data])
tableIndexOf(list, entry, forced) ==
    IF forced THEN Len(list) - 1 ELSE IndexOf(entry, list)

\* the body of the loop over the tags, after transformTable
CollectionAdd(t, origData, transformedData) ==
    LET entry == [tag |-> t, origData |-> origData, transformedData |-> transformedData]
        forced == args.MismatchGlyfLoca /\ t \in {Tag_glyf, Tag_loca}
        new == isNewTable(tableData, entry, forced)
        list == IF new THEN Append(tableData, entry) ELSE tableData
        tableIndex == tableIndexOf(list, entry, forced)
    IN  /\ tableData' = list
        /\ tableOrder' = IF new THEN Append(tableOrder, t) ELSE tableOrder
        /\ tableIndices' = Append(tableIndices, <<t, tableIndex>>)
        /\ locaIndices' = IF forced /\ t = Tag_loca
                          THEN Append(locaIndices, tableIndex) ELSE locaIndices

CollectionTableHead ==
    /\ InFont
    /\ collectionTag = Tag_head
    /\ font' = [font EXCEPT !.headFlags = BitOr(@, 2048)]
    /\ LET origData == getTableData(font', Tag_head)
       IN CollectionAdd(Tag_head, origData, origData)
    /\ UNCHANGED <<callVars, glyfVars, compData, directory, header, collectionDirectory, fonts,
            scriptVars>>

\* transformTable calls transformGlyf
CollectionTableGlyf ==
    /\ InFont
    /\ collectionTag = Tag_glyf
    /\ pc' = "transformGlyf"
    /\ glyphIndex' = 0
    /\ nContourStream' = <<>>
    /\ nPointsStream' = <<>>
    /\ flagStream' = <<>>
    /\ glyphStream' = <<>>
    /\ compositeStream' = <<>>
    /\ bboxStream' = <<>>
    /\ instructionStream' = <<>>
    /\ bboxBitmap' = Zeros(4 * ((numGlyphs + 31) \div 32))
    /\ UNCHANGED <<args, ret, sfntVars, collVars, scriptVars>>

\* transformGlyf returns to transformTable, transformTable to the loop
CollectionTableGlyfReturn ==
    /\ pc = "transformGlyf"
    /\ args.op = "getWOFFCollectionData"
    /\ glyphIndex = numGlyphs
    /\ pc' = "getWOFFCollectionData"
    /\ CollectionAdd(Tag_glyf, getTableData(font, Tag_glyf), transformGlyfData)
    /\ UNCHANGED <<args, ret, glyfVars, font, compData, directory, header,
                   collectionDirectory, fonts, scriptVars>>

CollectionTableLoca ==
    /\ InFont
    /\ collectionTag = Tag_loca
    /\ LET origData == getTableData(font, Tag_loca)
       IN CollectionAdd(Tag_loca, origData, locaTransformedData(origData))
    /\ UNCHANGED <<callVars, glyfVars, font, compData, directory, header,
                   collectionDirectory, fonts, scriptVars>>

CollectionTableHmtx ==
    /\ InFont
    /\ collectionTag = Tag_hmtx
    /\ transformOf(font, Tag_hmtx)
    /\ LET transformedData == transformHmtx(font)
       IN IF transformedData.ok
          THEN /\ CollectionAdd(Tag_hmtx, getTableData(font, Tag_hmtx), transformedData.val)
               /\ UNCHANGED <<callVars, glyfVars, font, compData, directory, header,
                              collectionDirectory, fonts, scriptVars>>
          ELSE /\ pc' = "done"
               /\ ret' = transformedData
               /\ UNCHANGED <<args, glyfVars, sfntVars, collVars, scriptVars>>

\* a table without a transform
CollectionTableNone ==
    /\ InFont
    /\ collectionTag # Tag_head
    /\ ~transformOf(font, collectionTag)
    /\ LET origData == getTableData(font, collectionTag)
       IN CollectionAdd(collectionTag, origData, origData)
    /\ UNCHANGED <<callVars, glyfVars, font, compData, directory, header,
                   collectionDirectory, fonts, scriptVars>>

\* the end of the loop body of a font
CollectionFontEnd ==
    /\ pc = "getWOFFCollectionData"
    /\ font # <<>>
    /\ Len(tableIndices) = Len(collectionTags(font))
    /\ collectionDirectory' = Append(collectionDirectory,
            [numTables |-> Len(tableIndices), flavor |-> sfntVersion(font),
             index |-> tableIndices])
    /\ fonts' = [fonts EXCEPT ![Len(collectionDirectory) + 1] = font]
    /\ font' = <<>>
    /\ tableIndices' = <<>>
    /\ UNCHANGED <<callVars, glyfVars, tableOrder, tableData, compData, directory, header,
                   locaIndices, scriptVars>>

\* OrderedDict: d[key] = value
OrderedDictSet(d, key, value) ==
    IF \E k \in 1..Len(d) : d[k][1] = key
    THEN [k \in 1..Len(d) |-> IF d[k][1] = key THEN <<key, value>> ELSE d[k]]
    ELSE Append(d, <<key, value>>)

\* MismatchGlyfLoca: the loca slots handed out in reverse
mismatchedDirectory(dir, indices) ==
    LET n == Len(indices)
        reversed == [k \in 1..n |-> indices[n + 1 - k]]
    IN  IF Len(dir) > n THEN Raise("IndexError")
        ELSE Ok([i \in 1..Len(dir) |->
                    [dir[i] EXCEPT !.index = OrderedDictSet(@, Tag_loca, reversed[i])]])

\* after the loop over the fonts: the loca slots swapped on request, and the
\* payload
CollectionCompress ==
    /\ pc = "getWOFFCollectionData"
    /\ font = <<>>
    /\ Len(collectionDirectory) = Len(args.fonts)
    /\ LET swapped == IF args.MismatchGlyfLoca
                      THEN mismatchedDirectory(collectionDirectory, locaIndices)
                      ELSE Ok(collectionDirectory)
           data == totalData
       IN IF ~swapped.ok
          THEN /\ pc' = "done"
               /\ ret' = swapped
               /\ UNCHANGED <<compData, collectionDirectory>>
          ELSE /\ collectionDirectory' = swapped.val
               /\ \E l \in CompressedLengths(data) :
                    compData' = storedPayload(l, data)
               /\ pc' = "defaultTestData"
               /\ ret' = ret
    /\ UNCHANGED <<args, glyfVars, font, tableOrder, tableData, directory, header,
                   tableIndices, locaIndices, fonts, scriptVars>>

packTestCollectionHeader(h) == PackL(h.version) \o pack255UInt16(h.numFonts, 0).val

packTestCollectionDirectory(dir) ==
    Flatten([k \in 1..Len(dir) |->
        pack255UInt16(dir[k].numTables, 0).val
        \o dir[k].flavor
        \o Flatten([i \in 1..Len(dir[k].index) |->
                       pack255UInt16(dir[k].index[i][2], 0).val])])

\* defaultTestData's loop over the directory of a collection, for entry i
filledCollectionEntry(entry, i) ==
    LET origLength == Len(tableData[i].origData)
        transformLength == Len(tableData[i].transformedData)
    IN [entry EXCEPT !.origLength = origLength,
                     !.transformLength = transformLength,
                     !.transformFlag =
                         IF entry.tag = Tag_hmtx /\ origLength > transformLength THEN 1 ELSE @]

RECURSIVE collectionSfntDirectorySize(_)
collectionSfntDirectorySize(dir) ==
    IF dir = <<>> THEN 0
    ELSE sfntDirectoryEntrySize * Head(dir).numTables + collectionSfntDirectorySize(Tail(dir))

\* defaultTestData(directory=..., tableData=..., compressedData=...,
\* collectionDirectory=...), and the packing of its parts
CollectionDefaultTestData ==
    /\ pc = "defaultTestData"
    /\ args.op = "getWOFFCollectionData"
    /\ LET default == [k \in 1..Len(tableOrder) |->
                          [tag |-> tableOrder[k], origLength |-> 0, transformLength |-> 0,
                           transformFlag |-> 0]]
           dir == [k \in 1..Len(default) |-> filledCollectionEntry(default[k], k)]
           collectionHeader == [version |-> 65536, numFonts |-> Len(collectionDirectory)]
           packedCollection == packTestCollectionHeader(collectionHeader)
                               \o packTestCollectionDirectory(collectionDirectory)
           length == woffHeaderSize + Len(packedDirectory(dir).val)
                     + Len(packedCollection) + compData.length
           wide == [k \in 1..Len(dir) |->
                       [dir[k] EXCEPT !.origLength = ToWide(@), !.transformLength = ToWide(@)]]
           h == [numTables |-> Len(dir),
                 flavor |-> "ttcf",
                 totalSfntSize |->
                     totalSfntSizeOf(dir, 12 + 4 * collectionHeader.numFonts
                                          + sfntDirectorySize * collectionHeader.numFonts
                                          + collectionSfntDirectorySize(collectionDirectory)),
                 totalCompressedSize |-> compData.length,
                 length |-> length + calcPaddingLength(length)]
       IN /\ directory' = dir
          /\ header' = h
          /\ ret' = Ok([directory |-> packTestDirectory(wide, knownTableTags, FALSE, TRUE, FALSE,
                                         packTestDirectory_Base128Bug_default).val,
                        collectionHeader |-> packTestCollectionHeader(collectionHeader),
                        collectionDirectory |-> packTestCollectionDirectory(collectionDirectory),
                        length |-> length + calcPaddingLength(length)])
    /\ pc' = "done"
    /\ UNCHANGED <<args, glyfVars, font, tableOrder, tableData, compData, collVars, scriptVars>>

\* the caller passes the same font objects to getWOFFCollectionData once more
EncodeAgain ==
    /\ pc = "done"
    /\ args.op = "getWOFFCollectionData"
    /\ ret.ok
    /\ args.first = <<>>
    /\ args' = [args EXCEPT !.fonts = fonts, !.first = ret.val]
    /\ pc' = "getWOFFCollectionData"
    /\ ret' = NoRet
    /\ tableOrder' = <<>>
    /\ tableData' = <<>>
    /\ compData' = <<>>
    /\ directory' = <<>>
    /\ header' = <<>>
    /\ tableIndices' = <<>>
    /\ collectionDirectory' = <<>>
    /\ locaIndices' = <<>>
    /\ UNCHANGED <<glyfVars, font, fonts, scriptVars>>

NextCollection ==
    \/ CollectionFontBegin
    \/ CollectionTableHead
    \/ CollectionTableGlyf
    \/ GlyphEmpty
    \/ GlyphSimple
    \/ CollectionTableGlyfReturn
    \/ CollectionTableLoca
    \/ CollectionTableHmtx
    \/ CollectionTableNone
    \/ CollectionFontEnd
    \/ CollectionCompress
    \/ CollectionDefaultTestData

SpecCollection == InitCollection /\ [][NextCollection]_vars

\* getWOFFCollectionData called twice on the same font objects
NextReuse == NextCollection \/ EncodeAgain

SpecReuse == InitCollection /\ [][NextReuse]_vars

-----------------------------------------------------------------------------
(* Claims about the shared table list of a collection. *)

\* getWOFFCollectionData has left its loop over the fonts without an error
CollectionBuilt ==
    /\ args.op = "getWOFFCollectionData"
    /\ pc \in {"defaultTestData", "done"}
    /\ pc = "done" => ret.ok

\* the font at position k as the loop leaves it, and the bytes of its tables
OwnFont(k) ==
    LET n == Len(args.fonts)
    IN  [args.fonts[k] EXCEPT
            !.headFlags = BitOr(@, 2048),
            !.nameSuffix = Append(@, IF args.reverseNames THEN n - k ELSE k - 1)]

OwnOrigData(k, t) == getTableData(OwnFont(k), t)

HasTable(k, t) == \E i \in 1..Len(collectionDirectory[k].index) :
                     collectionDirectory[k].index[i][1] = t

\* the shared index font k stores for tag t, and the slot it names
IndexFor(k, t) ==
    LET index == collectionDirectory[k].index
    IN  index[CHOOSE i \in 1..Len(index) : index[i][1] = t][2]

SlotFor(k, t) == tableData[IndexFor(k, t) + 1]

\* where a slot is referenced first: font and position within the font
FirstReference(slot) ==
    SetMin(UNION {{100 * k + i : i \in {j \in 1..Len(collectionDirectory[k].index) :
                                          collectionDirectory[k].index[j][2] = slot}} :
                  k \in 1..Len(collectionDirectory)})

TagsOfFont(k) == SelectSeq(args.fonts[k].keys, LAMBDA t : Len(t) = 4)

(* C14: without MismatchGlyfLoca the shared table list holds no (tag, data) *)
(* entry twice, its entries are in first-seen order over the fonts in input *)
(* order, every index in a font's collection directory entry is within the  *)
(* list and names the slot with that font's own tag and data, and the       *)
(* collection directory has one entry per font, in input order, whose       *)
(* numTables is the number of the font's tables.                            *)
C14_SharedListDeduplicated ==
    (args.op = "getWOFFCollectionData" /\ ~args.MismatchGlyfLoca) =>
        /\ \A i, j \in 1..Len(tableData) : i # j => tableData[i] # tableData[j]
        /\ CollectionBuilt =>
            /\ Len(collectionDirectory) = Len(args.fonts)
            /\ \A k \in 1..Len(collectionDirectory) :
                 LET entry == collectionDirectory[k]
                 IN  /\ entry.flavor = sfntVersion(args.fonts[k])
                     /\ entry.numTables = Len(TagsOfFont(k))
                     /\ entry.numTables = Len(entry.index)
                     /\ \A t \in {TagsOfFont(k)[i] : i \in 1..Len(TagsOfFont(k))} :
                          /\ HasTable(k, t)
                          /\ IndexFor(k, t) \in 0..(Len(tableData) - 1)
                          /\ SlotFor(k, t).tag = t
                          /\ SlotFor(k, t).origData = OwnOrigData(k, t)
                          /\ t = Tag_loca => SlotFor(k, t).transformedData = <<>>
                          /\ t = Tag_hmtx =>
                               SlotFor(k, t).transformedData =
                                   IF transformOf(OwnFont(k), t)
                                   THEN transformHmtx(OwnFont(k)).val
                                   ELSE OwnOrigData(k, t)
                          /\ t \notin {Tag_glyf, Tag_loca, Tag_hmtx} =>
                               SlotFor(k, t).transformedData = OwnOrigData(k, t)
            /\ \A i, j \in 1..Len(tableData) :
                 i < j => FirstReference(i - 1) < FirstReference(j - 1)
            /\ tableOrder = [i \in 1..Len(tableData) |-> tableData[i].tag]

\* the source font twice: the second font shares every table but name
C14_Witness ==
    /\ CollectionBuilt
    /\ ~args.MismatchGlyfLoca
    /\ Len(args.fonts) = 2
    /\ args.fonts[1] = args.fonts[2]
    /\ Len(tableData) = 8
    /\ collectionDirectory[1].index =
         << <<Tag_glyf, 0>>, <<Tag_loca, 1>>, <<Tag_head, 2>>, <<Tag_hhea, 3>>,
            <<Tag_hmtx, 4>>, <<Tag_maxp, 5>>, <<Tag_name, 6>> >>
    /\ collectionDirectory[2].index =
         << <<Tag_glyf, 0>>, <<Tag_loca, 1>>, <<Tag_head, 2>>, <<Tag_hhea, 3>>,
            <<Tag_hmtx, 4>>, <<Tag_maxp, 5>>, <<Tag_name, 7>> >>

\* every index names a slot of its own tag
NoSlotForTwoTags ==
    \A k \in 1..Len(collectionDirectory) :
        \A i \in 1..Len(collectionDirectory[k].index) :
            LET pair == collectionDirectory[k].index[i]
            IN  /\ pair[2] \in 0..(Len(tableData) - 1)
                /\ tableData[pair[2] + 1].tag = pair[1]

ForcedApart(t) == args.MismatchGlyfLoca /\ t \in {Tag_glyf, Tag_loca}

(* C15 as claimed: two different tags never occupy the same slot, and two   *)
(* fonts whose transformed bytes for the same tag are identical reference   *)
(* the same slot (loca included), unless MismatchGlyfLoca forces them       *)
(* apart.                                                                   *)
C15_SameTransformedSameSlot ==
    CollectionBuilt =>
        /\ NoSlotForTwoTags
        /\ \A a, b \in 1..Len(collectionDirectory) : \A t \in DirTags \cup {Tag_hmtx} :
             (/\ HasTable(a, t) /\ HasTable(b, t) /\ ~ForcedApart(t)
              /\ SlotFor(a, t).transformedData = SlotFor(b, t).transformedData)
                => IndexFor(a, t) = IndexFor(b, t)

(* C15: two different tags never occupy the same slot, and two fonts whose  *)
(* original and transformed bytes for the same tag are both identical       *)
(* reference the same slot, unless MismatchGlyfLoca forces them apart; two  *)
(* fonts whose original loca bytes differ reference different loca slots    *)
(* although the transformed bytes of both are empty.                        *)
C15_SameDataSameSlot ==
    CollectionBuilt =>
        /\ NoSlotForTwoTags
        /\ \A a, b \in 1..Len(collectionDirectory) :
           \A t \in {TagsOfFont(a)[i] : i \in 1..Len(TagsOfFont(a))} :
             (HasTable(a, t) /\ HasTable(b, t) /\ ~ForcedApart(t)) =>
                /\ (/\ OwnOrigData(a, t) = OwnOrigData(b, t)
                    /\ SlotFor(a, t).transformedData = SlotFor(b, t).transformedData)
                      => IndexFor(a, t) = IndexFor(b, t)
                /\ (t = Tag_loca /\ OwnOrigData(a, t) # OwnOrigData(b, t)) =>
                      /\ IndexFor(a, t) # IndexFor(b, t)
                      /\ SlotFor(a, t).transformedData = <<>>
                      /\ SlotFor(b, t).transformedData = <<>>

\* the source font and the font with one more glyph: two loca slots, both
\* with empty transformed bytes, and one head slot for both fonts
C15_Witness ==
    /\ CollectionBuilt
    /\ ~args.MismatchGlyfLoca
    /\ Len(args.fonts) = 2
    /\ Len(args.fonts[1].glyphs) = 1
    /\ Len(args.fonts[2].glyphs) = 2
    /\ IndexFor(1, Tag_loca) = 1
    /\ IndexFor(2, Tag_loca) = 8
    /\ SlotFor(1, Tag_loca).transformedData = SlotFor(2, Tag_loca).transformedData
    /\ IndexFor(1, Tag_head) = IndexFor(2, Tag_head)

(* C16 as claimed: without MismatchGlyfLoca two fonts reference the same    *)
(* shared glyf index if and only if they reference the same shared loca     *)
(* index.                                                                   *)
C16_GlyfLocaCoupled ==
    (CollectionBuilt /\ ~args.MismatchGlyfLoca) =>
        \A a, b \in 1..Len(collectionDirectory) :
            (HasTable(a, Tag_glyf) /\ HasTable(b, Tag_glyf)) =>
                ((IndexFor(a, Tag_glyf) = IndexFor(b, Tag_glyf))
                    <=> (IndexFor(a, Tag_loca) = IndexFor(b, Tag_loca)))

\* the source font and the font with the condensed glyph: two glyf slots,
\* one loca slot
C16_Witness ==
    /\ CollectionBuilt
    /\ ~args.MismatchGlyfLoca
    /\ Len(args.fonts) = 2
    /\ args.fonts[1].glyphs = <<SquareGlyph(SquareBox)>>
    /\ args.fonts[2].glyphs = <<CondensedSquareGlyph>>
    /\ IndexFor(1, Tag_glyf) = 0
    /\ IndexFor(2, Tag_glyf) = 7
    /\ IndexFor(1, Tag_loca) = 1
    /\ IndexFor(2, Tag_loca) = 1

\* two of the fonts passed have one of glyf and loca in common, not the other
PartialSharingAsked ==
    \E a, b \in 1..Len(args.fonts) :
        /\ InSeq(Tag_glyf, args.fonts[a].keys)
        /\ InSeq(Tag_glyf, args.fonts[b].keys)
        /\ (getTableData(args.fonts[a], Tag_glyf) = getTableData(args.fonts[b], Tag_glyf))
             # (getTableData(args.fonts[a], Tag_loca) = getTableData(args.fonts[b], Tag_loca))

(* C17 as claimed: when the fonts would share one of glyf and loca but not  *)
(* the other, getWOFFCollectionData fails with a CollectionSharingViolation *)
(* and returns no container.                                                *)
C17_SharingViolationRaised ==
    (args.op = "getWOFFCollectionData" /\ ~args.MismatchGlyfLoca
     /\ PartialSharingAsked /\ pc = "done")
        => (~ret.ok /\ ret.err = "CollectionSharingViolation")

\* the source font and the font with the condensed glyph: a container is
\* returned, its collection directory naming two glyf slots and one loca slot
C17_Witness ==
    /\ args.op = "getWOFFCollectionData"
    /\ ~args.MismatchGlyfLoca
    /\ PartialSharingAsked
    /\ pc = "done"
    /\ ret.ok
    /\ ret.val.collectionDirectory =
         <<7>> \o <<0, 1, 0, 0>> \o <<0, 1, 2, 3, 4, 5, 6>>
         \o <<7>> \o <<0, 1, 0, 0>> \o <<7, 1, 2, 3, 4, 5, 8>>

-----------------------------------------------------------------------------
(* defaultData.py: defaultTestData with metadata and private data, and      *)
(* sharedCases.py: makeValidWOFF1 to makeValidWOFF8, which assemble the     *)
(* file from the parts.  tableData and compData hold what getSFNTData       *)
(* returned for the source font when defaultData.py was loaded.             *)

\* utilities.padData: zero bytes up to the next multiple of 4
padData(data) == data \o Zeros(calcPaddingLength(Len(data)))

Bytes(n, b) == [k \in 1..n |-> b]

\* an argument left out, and an argument passed
NoneArg == [given |-> FALSE, data |-> <<>>]
Some(d) == [given |-> TRUE, data |-> d]

TableOf(t, origLength, transformLength) ==
    [tag |-> t, origData |-> Bytes(origLength, 1),
     transformedData |-> Bytes(transformLength, 1)]

\* sfntCFFTableData, sfntTTFTableData
DefaultTableData(flavor) ==
    IF flavor = "cff"
    THEN {<<TableOf(Tag_CFF, a, a), TableOf(Tag_head, 54, 54), TableOf(Tag_name, 5, 5)>> :
             a \in {33, 36}}
    ELSE {<<TableOf(Tag_glyf, a, 52), TableOf(Tag_head, 54, 54), TableOf(Tag_hmtx, 4, 3),
            TableOf(Tag_loca, 4, 0)>> : a \in {33, 36}}

\* testDataWOFFMetadata (a string) and testDataWOFFPrivateData (zero bytes)
testDataWOFFMetadata == Bytes(9, 60)
testDataWOFFPrivateData(n) == Zeros(n)

ContainerCalls ==
    {[op |-> "makeValidWOFF", flavor |-> f, metadata |-> m, privateData |-> p] :
        f \in {"cff", "ttf"},
        m \in {NoneArg, Some(testDataWOFFMetadata)},
        p \in {NoneArg} \cup {Some(testDataWOFFPrivateData(n)) : n \in 1..MaxBlock}}

InitContainer ==
    /\ pc = "call"
    /\ args \in ContainerCalls
    /\ ret = NoRet
    /\ idleGlyf
    /\ font = <<>>
    /\ tableData \in DefaultTableData(args.flavor)
    /\ tableOrder = [k \in 1..Len(tableData) |-> tableData[k].tag]
    /\ \E l \in 1..MaxBlock :
         compData = [brotli |-> TRUE, length |-> l, totalData |-> Bytes(l, 7)]
    /\ directory = <<>>
    /\ header = <<>>
    /\ tableIndices = <<>>
    /\ collectionDirectory = <<>>
    /\ locaIndices = <<>>
    /\ fonts = <<>>
    /\ idleScripts

\* variant: the metadata is counted as padded whether private data follow or not
metadataPadding_always(compMetadata, havePrivateData) ==
    calcPaddingLength(Len(compMetadata))

\* the padding defaultTestData counts after the metadata
metadataPadding(compMetadata, havePrivateData) ==
    IF havePrivateData THEN calcPaddingLength(Len(compMetadata)) ELSE 0

\* defaultTestData(metadata=..., privateData=..., flavor=...): the parts
DefaultTestDataCall ==
    /\ pc = "call"
    /\ args.op = "makeValidWOFF"
    /\ LET default == [k \in 1..Len(tableOrder) |->
                          [tag |-> tableOrder[k], origLength |-> 0, transformLength |-> 0,
                           transformFlag |-> 0]]
           dir == [k \in 1..Len(default) |-> filledEntry(default[k])]
           length0 == woffHeaderSize + Len(packedDirectory(dir).val) + compData.length
           length1 == length0 + calcPaddingLength(length0)
       IN \E l \in 1..MaxBlock :
            LET compMetadata == IF args.metadata.given THEN Bytes(l, 2) ELSE <<>>
                length2 == IF args.metadata.given
                           THEN length1 + Len(compMetadata)
                                + metadataPadding(compMetadata, args.privateData.given)
                           ELSE length1
                length3 == IF args.privateData.given
                           THEN length2 + Len(args.privateData.data) ELSE length2
                h == [numTables |-> Len(dir),
                      flavor |-> IF \E k \in 1..Len(tableData) : tableData[k].tag = Tag_CFF
                                 THEN "OTTO" ELSE "\\000\\001\\000\\000",
                      totalSfntSize |->
                          totalSfntSizeOf(dir, sfntDirectorySize
                                               + Len(dir) * sfntDirectoryEntrySize),
                      totalCompressedSize |-> compData.length,
                      metaOffset |-> IF args.metadata.given THEN length1 ELSE 0,
                      metaLength |-> Len(compMetadata),
                      metaOrigLength |-> Len(args.metadata.data),
                      privOffset |-> IF args.privateData.given THEN length2 ELSE 0,
                      privLength |-> Len(args.privateData.data),
                      length |-> length3]
            IN  /\ (~args.metadata.given => l = 1)
                /\ directory' = dir
                /\ header' = h
                /\ ret' = Ok([header |-> h, directory |-> dir,
                              tableData |-> compData.totalData,
                              metadata |-> IF args.metadata.given
                                           THEN Some(<<args.metadata.data, compMetadata>>)
                                           ELSE NoneArg,
                              privateData |-> args.privateData,
                              file |-> <<>>])
    /\ pc' = "makeValidWOFF"
    /\ UNCHANGED <<args, glyfVars, font, tableOrder, tableData, compData, collVars, scriptVars>>

flavorBytes(f) ==
    IF f = "OTTO" THEN <<79, 84, 84, 79>>
    ELSE IF f = "ttcf" THEN <<116, 116, 99, 102>>
    ELSE <<0, 1, 0, 0>>

\* sstruct.pack(woffHeaderFormat, header)
packTestHeader(h) ==
    <<119, 79, 70, 50>> \o flavorBytes(h.flavor) \o PackL(h.length)
    \o PackH(h.numTables) \o PackH(0)
    \o PackL(h.totalSfntSize) \o PackL(h.totalCompressedSize)
    \o PackH(0) \o PackH(0)
    \o PackL(h.metaOffset) \o PackL(h.metaLength) \o PackL(h.metaOrigLength)
    \o PackL(h.privOffset) \o PackL(h.privLength)

\* variant: the metadata is never padded
packTestMetadata_unpadded(metadata, havePrivateData) == metadata[2]

packTestMetadata(metadata, havePrivateData) ==
    IF havePrivateData THEN padData(metadata[2]) ELSE metadata[2]

packTestPrivateData(privateData) == privateData

\* makeValidWOFF1 to makeValidWOFF8: the file
MakeValidWOFF ==
    /\ pc = "makeValidWOFF"
    /\ LET parts == ret.val
           data == padData(packTestHeader(parts.header)
                           \o packedDirectory(parts.directory).val
                           \o parts.tableData)
                   \o (IF parts.metadata.given
                       THEN packTestMetadata(parts.metadata.data, parts.privateData.given)
                       ELSE <<>>)
                   \o (IF parts.privateData.given
                       THEN packTestPrivateData(parts.privateData.data)
                       ELSE <<>>)
       IN ret' = Ok([parts EXCEPT !.file = data])
    /\ pc' = "done"
    /\ UNCHANGED <<args, glyfVars, sfntVars, collVars, scriptVars>>

NextContainer ==
    \/ DefaultTestDataCall
    \/ MakeValidWOFF

SpecContainer == InitContainer /\ [][NextContainer]_vars

-----------------------------------------------------------------------------
(* Claims about the assembled file. *)

\* the file, and where its table data end
File == ret.val.file
TableDataEnd == woffHeaderSize + Len(packedDirectory(directory).val) + compData.length
Padded(n) == n + calcPaddingLength(n)

\* where the metadata start in the file: the first byte after the table data
\* that is not padding; where the private data start: their length from the end
MetaStart ==
    SetMin({k \in TableDataEnd..(Len(File) - 1) : File[k + 1] # 0})
PrivStart == Len(File) - Len(args.privateData.data)

ZerosBetween(a, b) == \A k \in (a + 1)..b : File[k] = 0

(* C18: for both flavors and the four combinations of metadata and private  *)
(* data, the header of the assembled file has length equal to the size of   *)
(* the file, metaOffset and privOffset equal to the positions where the     *)
(* compressed metadata and the private data start, both multiples of 4,     *)
(* metaLength and privLength equal to the unpadded block sizes,             *)
(* metaOrigLength equal to the uncompressed metadata size, and the offset   *)
(* and length fields of an absent block 0.                                  *)
C18_HeaderOffsets ==
    Done("makeValidWOFF") =>
        LET parts == ret.val
            h == parts.header
        IN  /\ SubSeq(File, 1, woffHeaderSize) = packTestHeader(h)
            /\ h.length = Len(File)
            /\ IF args.metadata.given
               THEN /\ h.metaOffset = MetaStart
                    /\ h.metaOffset % 4 = 0
                    /\ h.metaLength = Len(parts.metadata.data[2])
                    /\ SubSeq(File, h.metaOffset + 1, h.metaOffset + h.metaLength)
                         = parts.metadata.data[2]
                    /\ h.metaOrigLength = Len(args.metadata.data)
                    /\ h.metaOrigLength > 0
               ELSE h.metaOffset = 0 /\ h.metaLength = 0 /\ h.metaOrigLength = 0
            /\ IF args.privateData.given
               THEN /\ h.privOffset = PrivStart
                    /\ h.privOffset % 4 = 0
                    /\ h.privLength = Len(args.privateData.data)
                    /\ h.privOffset >= (IF args.metadata.given
                                        THEN h.metaOffset + h.metaLength
                                        ELSE TableDataEnd)
               ELSE h.privOffset = 0 /\ h.privLength = 0

\* a TTF file with 5 bytes of compressed metadata and 3 bytes of private
\* data: the metadata are followed by 3 bytes of padding
C18_Witness ==
    /\ Done("makeValidWOFF")
    /\ args.flavor = "ttf"
    /\ args.metadata.given
    /\ args.privateData.given
    /\ header.metaLength = 5
    /\ header.privLength = 3
    /\ header.privOffset = header.metaOffset + 8
    /\ header.length = Len(File)
    /\ header.length = header.privOffset + 3

\* the end of the last section present
LastSectionEnd ==
    IF args.privateData.given THEN PrivStart + Len(args.privateData.data)
    ELSE IF args.metadata.given THEN MetaStart + Len(ret.val.metadata.data[2])
    ELSE TableDataEnd

(* C19 as claimed: every section but the last is zero-padded to a 4-byte    *)
(* boundary, and the last section present (private data, else metadata,     *)
(* else the compressed table data) is followed by no padding, neither in    *)
(* the file nor in the header length field.                                 *)
C19_LastSectionUnpadded ==
    Done("makeValidWOFF") =>
        /\ Len(File) = LastSectionEnd
        /\ header.length = LastSectionEnd
        /\ args.metadata.given =>
              /\ MetaStart = Padded(TableDataEnd)
              /\ ZerosBetween(TableDataEnd, MetaStart)
        /\ args.privateData.given =>
              /\ PrivStart % 4 = 0
              /\ ZerosBetween(IF args.metadata.given
                              THEN MetaStart + Len(ret.val.metadata.data[2])
                              ELSE TableDataEnd, PrivStart)

(* C19: the compressed table data are always zero-padded to a 4-byte        *)
(* boundary, also when they are the last section: without metadata and      *)
(* private data the file and the header length end at that boundary.  The   *)
(* metadata are zero-padded to a 4-byte boundary exactly when private data  *)
(* follow; metadata or private data that end the file are followed by no    *)
(* padding, neither in the file nor in the header length field.             *)
C19_PaddingRules ==
    Done("makeValidWOFF") =>
        LET afterTables == Padded(TableDataEnd)
            metaEnd == MetaStart + Len(ret.val.metadata.data[2])
        IN  /\ header.length = Len(File)
            /\ Len(File) >= afterTables
            /\ ZerosBetween(TableDataEnd, afterTables)
            /\ (~args.metadata.given /\ ~args.privateData.given) =>
                  Len(File) = afterTables
            /\ args.metadata.given =>
                  /\ MetaStart = afterTables
                  /\ IF args.privateData.given
                     THEN /\ PrivStart = Padded(metaEnd)
                          /\ ZerosBetween(metaEnd, PrivStart)
                     ELSE Len(File) = metaEnd
            /\ (~args.metadata.given /\ args.privateData.given) =>
                  PrivStart = afterTables
            /\ args.privateData.given =>
                  Len(File) = PrivStart + Len(args.privateData.data)

\* a file without metadata and private data whose table data end one byte
\* short of a 4-byte boundary: the file ends in one byte of padding
C19_Witness ==
    /\ Done("makeValidWOFF")
    /\ ~args.metadata.given
    /\ ~args.privateData.given
    /\ TableDataEnd % 4 = 3
    /\ Len(File) = TableDataEnd + 1
    /\ File[Len(File)] = 0
    /\ header.length = Len(File)

-----------------------------------------------------------------------------
(* defaultTestData for a single font and for a collection. *)

InitEncode == InitSFNT \/ InitCollection

NextEncode ==
    \/ GetSFNTDataBegin
    \/ TransformTableHead
    \/ TransformTableGlyf
    \/ GlyphEmpty
    \/ GlyphComposite
    \/ GlyphSimple
    \/ TransformTableGlyfReturn
    \/ TransformTableLoca
    \/ TransformTableHmtx
    \/ TransformTableNone
    \/ GetSFNTDataCompress
    \/ DefaultTestData
    \/ CollectionFontBegin
    \/ CollectionTableHead
    \/ CollectionTableGlyf
    \/ CollectionTableGlyfReturn
    \/ CollectionTableLoca
    \/ CollectionTableHmtx
    \/ CollectionTableNone
    \/ CollectionFontEnd
    \/ CollectionCompress
    \/ CollectionDefaultTestData

SpecEncode == InitEncode /\ [][NextEncode]_vars

\* defaultTestData has returned the parts of a single font or a collection
Encoded(op) == pc = "done" /\ args.op = op /\ ret.ok

\* the original data of the table a directory entry stands for
OrigDataOfEntry(k) ==
    IF args.op = "getWOFFCollectionData" THEN tableData[k].origData
    ELSE tableDataOf(directory[k].tag).origData

RECURSIVE SumOver(_, _)
SumOver(f(_), n) == IF n = 0 THEN 0 ELSE f(n) + SumOver(f, n - 1)

\* the size of the directories of the reconstructed font file
ReconstructedDirectorySize ==
    IF args.op = "getWOFFCollectionData"
    THEN LET numFonts == Len(collectionDirectory)
             references(k) == collectionDirectory[k].numTables
         IN 12 + 4 * numFonts + 12 * numFonts + 16 * SumOver(references, numFonts)
    ELSE 12 + 16 * Len(directory)

(* C20: defaultTestData sets totalSfntSize to the size of the directories   *)
(* of the reconstructed font (12 + 16 per table for a single font; 12 + 4   *)
(* per font for the collection header, 12 per font and 16 per table         *)
(* reference for a collection) plus the sum over the directory entries of   *)
(* the original length rounded up to a multiple of 4, the original length   *)
(* being the size of the untransformed table.  The value is a multiple of   *)
(* 4 and is given by the original sizes alone, whatever the transformed     *)
(* and compressed sizes are.                                                *)
C20_TotalSfntSize ==
    (Encoded("getSFNTData") \/ Encoded("getWOFFCollectionData")) =>
        LET padded(k) == Padded(Len(OrigDataOfEntry(k)))
        IN  /\ \A k \in 1..Len(directory) :
                  directory[k].origLength = Len(OrigDataOfEntry(k))
            /\ header.totalSfntSize
                  = ReconstructedDirectorySize + SumOver(padded, Len(directory))
            /\ header.totalSfntSize % 4 = 0

\* a collection of two fonts: 8 tables in the shared list, 14 references,
\* a table whose original size is not a multiple of 4, a table stored
\* shorter than its original, and a compressed size that differs from the
\* sum of the original sizes
C20_Witness ==
    /\ Encoded("getWOFFCollectionData")
    /\ Len(collectionDirectory) = 2
    /\ ReconstructedDirectorySize = 12 + 8 + 24 + 16 * 14
    /\ header.totalSfntSize > ReconstructedDirectorySize
    /\ \E k \in 1..Len(directory) : directory[k].origLength % 4 # 0
    /\ \E k \in 1..Len(directory) : directory[k].transformLength < directory[k].origLength
    /\ header.totalCompressedSize + ReconstructedDirectorySize # header.totalSfntSize


\* the payload of a single font or a collection has been compressed
Compressed ==
    /\ args.op \in {"getSFNTData", "getWOFFCollectionData"}
    /\ pc \in {"defaultTestData", "done"}
    /\ pc = "done" => ret.ok

(* C21: the stored payload is the compressor's output only when that output *)
(* is strictly shorter than the concatenated transformed table data, and    *)
(* the concatenation itself otherwise; it is never longer than the          *)
(* concatenation, totalCompressedSize is its length, and once the payload   *)
(* of a container is stored the compressor is not called again.             *)
C21_StoredPayload ==
    /\ [](Compressed =>
            /\ compData.totalData = totalData
            /\ compData.brotli => compData.length < Len(totalData)
            /\ ~compData.brotli => compData.length = Len(totalData)
            /\ compData.length <= Len(totalData)
            /\ pc = "done" => header.totalCompressedSize = compData.length)
    /\ [][Compressed => compData' = compData]_vars

\* a collection whose compressor output was not shorter than the data: the
\* data are stored as they are
C21_Witness ==
    /\ Encoded("getWOFFCollectionData")
    /\ ~compData.brotli
    /\ Len(totalData) > 0
    /\ header.totalCompressedSize = Len(totalData)


-----------------------------------------------------------------------------
(* Claims about the font objects an encode operation is given. *)

\* getWOFFCollectionData has returned a container
CollectionReturned == pc = "done" /\ args.op = "getWOFFCollectionData" /\ ret.ok

-----------------------------------------------------------------------------
(* Claims about the codec calls that can fail. *)

(* C23: pack255UInt16 returns an encoding for every n in 0..65535 and       *)
(* every alternate value it is called with, the values 3 and above that     *)
(* the nPoints loop of transformGlyf passes for the fourth and later        *)
(* 506-point contour of a glyph included: neither call ends in an error.    *)
C23_Pack255Total ==
    /\ Done("pack255UInt16") => ret.ok /\ Len(ret.val) \in 1..3
    /\ Done("nPoints") => ret.ok /\ Len(ret.val) = Len(args.endPtsOfContours)

\* a glyph of four contours of 506 points with alt255UInt16: the fourth
\* call is pack255UInt16(506, alternate=3), which leaves ret unassigned
C23_Witness ==
    /\ Done("nPoints")
    /\ args.alt255UInt16
    /\ args.endPtsOfContours = <<505, 1011, 1517, 2023>>
    /\ pack255UInt16(506, 2) = Ok(<<255, 253>>)
    /\ pack255UInt16(506, 3) = Raise("UnboundLocalError")
    /\ ret = Raise("UnboundLocalError")


-----------------------------------------------------------------------------
(* Claims about the layout of the transformed glyf table. *)

\* big-endian fields read from a byte string at an offset
ReadH(b, off) == b[off + 1] * 256 + b[off + 2]
ReadL(b, off) == ReadH(b, off) * 65536 + ReadH(b, off + 2)

\* the seven stream sizes of the header, the start of each stream and the
\* streams cut out of the table
StreamSize(d, k) == ReadL(d, 8 + 4 * (k - 1))
RECURSIVE StreamStart(_, _)
StreamStart(d, k) ==
    IF k = 1 THEN 36 ELSE StreamStart(d, k - 1) + StreamSize(d, k - 1)
StreamOf(d, k) == SubSeq(d, StreamStart(d, k) + 1, StreamStart(d, k) + StreamSize(d, k))

\* the box transformGlyf writes for a glyph whose bit is set
BoxOfGlyph(g) ==
    IF g.numberOfContours = 0 THEN <<0, 0, 0, 0>> ELSE g.bbox

(* C24: the table transformGlyf returns is a 36-byte header followed by the *)
(* nContour, nPoints, flag, glyph, composite, bbox and instruction streams  *)
(* in that order; its length is 36 plus the seven sizes of the header,      *)
(* nContourStreamSize is 2 * numGlyphs, and the bbox stream is a bitmap of  *)
(* 4 * ceil(numGlyphs / 32) bytes followed by 8 bytes for every bit set,    *)
(* glyph g owning bit (0x80 >> (g mod 8)) of byte g div 8 and the boxes     *)
(* standing in increasing glyph index.                                      *)
C24_GlyfLayout ==
    (Done("transformGlyf") /\ ret.ok) =>
        LET d == ret.val
            n == ReadH(d, 4)
            glyphs == args.font.glyphs
            bitmapLength == 4 * ((n + 31) \div 32)
            bbox == StreamOf(d, 6)
            bitmap == SubSeq(bbox, 1, bitmapLength)
            marked == {g \in 0..(n - 1) :
                          bitmap[(g \div 8) + 1] % (2 * Shr(128, g % 8)) >= Shr(128, g % 8)}
            rank(g) == Cardinality({h \in marked : h < g})
        IN  /\ Len(d) = StreamStart(d, 7) + StreamSize(d, 7)
            /\ n = Len(glyphs)
            /\ ReadL(d, 0) = 0
            /\ ReadH(d, 6) = args.font.indexToLocFormat
            /\ StreamSize(d, 1) = 2 * n
            /\ StreamOf(d, 1) = nContourStream
            /\ \A g \in 0..(n - 1) :
                  SubSeq(StreamOf(d, 1), 2 * g + 1, 2 * g + 2)
                      = Packh(glyphs[g + 1].numberOfContours)
            /\ StreamOf(d, 2) = nPointsStream
            /\ StreamOf(d, 3) = flagStream
            /\ StreamOf(d, 4) = glyphStream
            /\ StreamOf(d, 5) = compositeStream
            /\ StreamOf(d, 7) = instructionStream
            /\ bitmap = bboxBitmap
            /\ StreamSize(d, 6) = bitmapLength + 8 * Cardinality(marked)
            /\ \A k \in 1..bitmapLength : \A j \in 0..7 :
                  (8 * (k - 1) + j >= n) =>
                      bitmap[k] % (2 * Shr(128, j)) < Shr(128, j)
            /\ \A g \in marked :
                  SubSeq(bbox, bitmapLength + 8 * rank(g) + 1, bitmapLength + 8 * rank(g) + 8)
                      = BoxBytes(BoxOfGlyph(glyphs[g + 1]))

\* 33 glyphs under glyphBBox="empty": a bitmap of 8 bytes, the 32 empty
\* glyphs and the square marked, 33 boxes, the square's box last
C24_Witness ==
    /\ Done("transformGlyf")
    /\ ret.ok
    /\ args.glyphBBox = "empty"
    /\ Len(args.font.glyphs) = ManyGlyphs + 1
    /\ args.font.glyphs[ManyGlyphs + 1].numberOfContours = 1
    /\ Len(bboxBitmap) = 8
    /\ bboxBitmap[1] = 255
    /\ bboxBitmap[5] >= 128
    /\ StreamSize(ret.val, 6) = 8 + 8 * (ManyGlyphs + 1)
    /\ StreamSize(ret.val, 1) = 2 * (ManyGlyphs + 1)
    /\ SubSeq(ret.val, Len(ret.val) - 7, Len(ret.val)) = <<0, 0, 0, 0, 3, 132, 3, 232>>


-----------------------------------------------------------------------------
(* Claims about the directory and the payload. *)

\* the entries in the order packTestDirectory writes them: for a single font
\* the caller passes unsortGlyfLoca to getSFNTData and to packTestDirectory
\* (makeWrongTableOrder1), a collection is packed with isCollection=True
PackedEntries ==
    IF args.op = "getWOFFCollectionData"
    THEN packTestDirectoryOrder(directory, TRUE, FALSE)
    ELSE packTestDirectoryOrder(directory, FALSE, args.unsortGlyfLoca)

(* C25: the directory entries in packed order correspond one to one and in  *)
(* the same order to the segments of the uncompressed payload: the k-th     *)
(* entry has the tag of the k-th table, its transformLength is the length   *)
(* of the k-th segment and its origLength the length of the original        *)
(* table, so that adding up transformLength over the entries before it      *)
(* gives the start of each table and over all entries the length of the     *)
(* payload.                                                                 *)
C25_DirectoryMatchesPayload ==
    (Encoded("getSFNTData") \/ Encoded("getWOFFCollectionData")) =>
        /\ PackedEntries.ok
        /\ LET e == PackedEntries.val
               payload == compData.totalData
               length(k) == e[k].transformLength
               start(k) == SumOver(length, k - 1)
           IN  /\ Len(e) = Len(tableOrder)
               /\ Len(e) = Len(tableData)
               /\ \A k \in 1..Len(e) :
                     /\ e[k].tag = tableOrder[k]
                     /\ e[k].tag = tableData[k].tag
                     /\ e[k].transformLength = Len(tableData[k].transformedData)
                     /\ e[k].origLength = Len(tableData[k].origData)
                     /\ SubSeq(payload, start(k) + 1, start(k) + length(k))
                           = tableData[k].transformedData
               /\ SumOver(length, Len(e)) = Len(payload)

\* getSFNTData(unsortGlyfLoca=True): loca stands before glyf in the payload
\* and in the packed directory, and the walk over the directory reaches the
\* flags byte of the transformed hmtx table
C25_Witness ==
    /\ Encoded("getSFNTData")
    /\ args.unsortGlyfLoca
    /\ tableOrder = <<Tag_cmap, Tag_loca, Tag_glyf, Tag_head, Tag_hhea, Tag_hmtx, Tag_maxp,
                      Tag_name>>
    /\ PackedEntries.val[2].tag = Tag_loca
    /\ PackedEntries.val[2].transformLength = 0
    /\ PackedEntries.val[6].transformFlag = 1
    /\ LET length(k) == PackedEntries.val[k].transformLength
       IN compData.totalData[SumOver(length, 5) + 1] = 3

-----------------------------------------------------------------------------
(* Claims about the hmtx directory entry. *)

\* the flags-prefixed form of the font's hmtx table: a flags byte with bit 0
\* set, then the advances and the trailing left side bearings
IsTransformedHmtx(data, f) ==
    /\ data # <<>>
    /\ FlagBit(data[1], 0)
    /\ data[1] < 4
    /\ Len(data) = 1 + 2 * f.numberOfHMetrics
                     + (IF FlagBit(data[1], 1) THEN 0
                        ELSE 2 * (Len(f.metrics) - f.numberOfHMetrics))

(* C26: the data getSFNTData stores for hmtx is either byte-identical to    *)
(* the original table or strictly shorter than it, and defaultTestData      *)
(* gives the hmtx entry transform code 1 exactly when the stored data is    *)
(* the flags-prefixed transformed form and 0 exactly when it is the         *)
(* original table.                                                          *)
C26_HmtxTransformCode ==
    Encoded("getSFNTData") =>
        LET stored == tableDataOf(Tag_hmtx)
            code == EntryOf(Tag_hmtx).transformFlag
        IN  /\ \/ stored.transformedData = stored.origData
               \/ Len(stored.transformedData) < Len(stored.origData)
            /\ stored.origData = hmtxOrigData(args.font)
            /\ code \in {0, 1}
            /\ code = 1 <=> /\ stored.transformedData # stored.origData
                            /\ IsTransformedHmtx(stored.transformedData, args.font)
            /\ code = 0 <=> stored.transformedData = stored.origData

\* a font with glyf whose bearings all match: the stored hmtx data is the
\* shorter form and the entry has code 1
C26_Witness ==
    /\ Encoded("getSFNTData")
    /\ Len(args.font.metrics) = 2
    /\ EntryOf(Tag_hmtx).transformFlag = 1
    /\ EntryOf(Tag_hmtx).origLength = 8
    /\ EntryOf(Tag_hmtx).transformLength = 5
    /\ tableDataOf(Tag_hmtx).transformedData[1] = 3

\* a font with a bearing that differs from xMin: the original table, code 0
C26_WitnessOriginal ==
    /\ Encoded("getSFNTData")
    /\ InSeq(Tag_glyf, args.font.keys)
    /\ EntryOf(Tag_hmtx).transformFlag = 0
    /\ tableDataOf(Tag_hmtx).transformedData = hmtxOrigData(args.font)

-----------------------------------------------------------------------------
(* Claims about the layout of the transformed hmtx table. *)

(* C27 as claimed: when the hmtx transform applies, the bytes after the     *)
(* flags byte are the advance widths of glyphs 0 to numberOfHMetrics-1 as   *)
(* big-endian uint16 in glyph-index order, followed, when bit 1 is clear,   *)
(* by the left side bearings of the remaining glyphs in glyph-index order   *)
(* as big-endian signed 16-bit values, for every left side bearing in       *)
(* [-32768, 32767], negative values included.                               *)
C27_HmtxLayout ==
    (Done("transformHmtx") /\ AllLsbMatch(args.font)) =>
        LET f == args.font
            h == f.numberOfHMetrics
            n == Len(f.metrics)
            advances == Flatten([k \in 1..h |-> PackH(f.metrics[k][1])])
            bearings == Flatten([k \in 1..(n - h) |-> Packh(f.metrics[h + k][2])])
        IN  /\ ret.ok
            /\ Len(ret.val) >= 1
            /\ Tail(ret.val) = advances \o (IF FlagBit(ret.val[1], 1) THEN <<>> ELSE bearings)

\* the glyph after numberOfHMetrics has the bearing -1 = xMin: the call
\* raises where the claim has the bytes FF FF
C27_Witness ==
    /\ Done("transformHmtx")
    /\ AllLsbMatch(args.font)
    /\ args.font.numberOfHMetrics = 1
    /\ args.font.metrics = << <<1000, 0>>, <<500, -1>> >>
    /\ args.font.metricsOrder = <<1, 2>>
    /\ ret = Raise("struct.error")

\* the dict yields the second glyph first: the advance written is the one
\* of glyph 1, not of glyph 0
C27_WitnessOrder ==
    /\ Done("transformHmtx")
    /\ args.font.numberOfHMetrics = 1
    /\ args.font.metrics = << <<500, 0>>, <<1000, 0>> >>
    /\ args.font.metricsOrder = <<2, 1>>
    /\ ret = Ok(<<1>> \o PackH(1000) \o PackH(0))

-----------------------------------------------------------------------------
(* AuthoringToolTestCaseGenerator.py: makeValidSFNT and makeDSIG, with      *)
(* defaultData.py: defaultSFNTTestData and sfnt.py: packSFNT.  args.cff and *)
(* args.ttf are sfntCFFTableData and sfntTTFTableData, what getSFNTData     *)
(* returned for the two source fonts when defaultData.py was loaded.        *)

Tag_DSIG == <<68, 83, 73, 71>>

\* 32-bit sums on four big-endian bytes
Add32(a, b) ==
    LET s4 == a[4] + b[4]
        s3 == a[3] + b[3] + s4 \div 256
        s2 == a[2] + b[2] + s3 \div 256
        s1 == a[1] + b[1] + s2 \div 256
    IN <<s1 % 256, s2 % 256, s3 % 256, s4 % 256>>

Neg32(a) == Add32(<<255 - a[1], 255 - a[2], 255 - a[3], 255 - a[4]>>, <<0, 0, 0, 1>>)

\* the sum of the 32-bit words of data: the sums of the four byte columns,
\* with the carries taken over
RECURSIVE SumColumn(_, _, _)
SumColumn(data, j, n) ==
    IF n = 0 THEN 0 ELSE data[4 * (n - 1) + j] + SumColumn(data, j, n - 1)

SumWords(data) ==
    LET n == Len(data) \div 4
        s4 == SumColumn(data, 4, n)
        s3 == SumColumn(data, 3, n) + s4 \div 256
        s2 == SumColumn(data, 2, n) + s3 \div 256
        s1 == SumColumn(data, 1, n) + s2 \div 256
    IN <<s1 % 256, s2 % 256, s3 % 256, s4 % 256>>

\* utilities.calcTableChecksum: the sum of the padded table's 32-bit words,
\* for head with checkSumAdjustment taken as zero
calcTableChecksum(t, data) ==
    IF t = Tag_head
    THEN SumWords(padData(SubSeq(data, 1, 8) \o Zeros(4) \o SubSeq(data, 13, Len(data))))
    ELSE SumWords(padData(data))

\* fontTools.ttLib.getSearchRange(n, 16)
RECURSIVE maxPowerOfTwo(_)
maxPowerOfTwo(n) == IF n < 2 THEN 0 ELSE 1 + maxPowerOfTwo(n \div 2)

getSearchRange(n, itemSize) ==
    LET entrySelector == maxPowerOfTwo(n)
        searchRange == Pow2(entrySelector) * itemSize
        rest == n * itemSize - searchRange
    IN [searchRange |-> searchRange, entrySelector |-> entrySelector,
        rangeShift |-> IF rest > 0 THEN rest ELSE 0]

\* SFNTDirectoryEntry.toString
packSFNTEntry(entry) ==
    entry.tag \o entry.checksum \o PackL(entry.offset) \o PackL(entry.length)

\* sstruct.pack(sfntDirectoryFormat, header)
packSFNTHeader(h) ==
    flavorBytes(h.sfntVersion) \o PackH(h.numTables) \o PackH(h.searchRange)
    \o PackH(h.entrySelector) \o PackH(h.rangeShift)

\* utilities.calcHeadCheckSumAdjustmentSFNT: 0xB1B0AFBA minus the sum of the
\* checksums of the directory and of the tables, stored in the head table
calcHeadCheckSumAdjustmentSFNT(dir, tables, f) ==
    LET range == getSearchRange(Len(dir), 16)
        sfntData == packSFNTHeader([sfntVersion |-> f, numTables |-> Len(dir),
                                    searchRange |-> range.searchRange,
                                    entrySelector |-> range.entrySelector,
                                    rangeShift |-> range.rangeShift])
                    \o Flatten([k \in 1..Len(dir) |-> packSFNTEntry(dir[k])])
        RECURSIVE total(_)
        total(k) == IF k = 0 THEN SumWords(sfntData)
                    ELSE Add32(dir[k].checksum, total(k - 1))
        adjustment == Add32(<<177, 176, 175, 186>>, Neg32(total(Len(dir))))
    IN [k \in 1..Len(tables) |->
          IF tables[k].tag = Tag_head
          THEN [tables[k] EXCEPT !.data = SubSeq(@, 1, 8) \o adjustment \o SubSeq(@, 13, Len(@))]
          ELSE tables[k]]

\* the source fonts: table sizes of the CFF font and of the TrueType font
SourceTableSizes == {33, 34, 36}

SFNTSourceTables(flavor) ==
    IF flavor = "cff"
    THEN {<<TableOf(Tag_CFF, a, a), TableOf(Tag_head, 54, 54), TableOf(Tag_name, 5, 5)>> :
             a \in SourceTableSizes}
    ELSE {<<TableOf(Tag_glyf, a, 52), TableOf(Tag_head, 54, 54), TableOf(Tag_hmtx, 4, 3),
            TableOf(Tag_loca, 4, 0)>> : a \in SourceTableSizes}

\* makeValidSFNT() and makeDSIG() with the default flavor, and with "TTF"
ValidSFNTCalls ==
    {[op |-> o, flavor |-> f, cff |-> c, ttf |-> t] :
        o \in {"makeValidSFNT", "makeDSIG"}, f \in {"CFF", "TTF"},
        c \in SFNTSourceTables("cff"), t \in SFNTSourceTables("ttf")}

InitValidSFNT ==
    /\ pc = "call"
    /\ args \in ValidSFNTCalls
    /\ ret = NoRet
    /\ idleGlyf
    /\ idleSFNT
    /\ tableIndices = <<>>
    /\ collectionDirectory = <<>>
    /\ locaIndices = <<>>
    /\ fonts = <<>>
    /\ idleScripts

\* the directory entries with offset, length and checksum, from an offset on
RECURSIVE measuredDirectory(_, _)
measuredDirectory(tables, offset) ==
    IF tables = <<>> THEN <<>>
    ELSE LET data == Head(tables).data
             length == Len(data)
         IN <<[tag |-> Head(tables).tag, offset |-> offset, length |-> length,
               checksum |-> calcTableChecksum(Head(tables).tag, data)]>>
            \o measuredDirectory(Tail(tables), offset + length + calcPaddingLength(length))

\* defaultSFNTTestData(flavor=flavor): flavor is compared with "cff"
DefaultSFNTTestData ==
    /\ pc = "call"
    /\ args.op \in {"makeValidSFNT", "makeDSIG"}
    /\ LET source == IF args.flavor = "cff" THEN args.cff ELSE args.ttf
           tables == [k \in 1..Len(source) |->
                         [tag |-> source[k].tag, data |-> source[k].origData]]
       IN /\ tableData' = tables
          /\ directory' = measuredDirectory(tables, sfntDirectorySize
                                                    + Len(tables) * sfntDirectoryEntrySize)
          /\ header' = [sfntVersion |-> "OTTO", numTables |-> Len(tables),
                        searchRange |-> 0, entrySelector |-> 0, rangeShift |-> 0,
                        flavor |-> IF args.flavor = "cff" THEN "OTTO"
                                   ELSE "\\000\\001\\000\\000"]
    /\ pc' = IF args.op = "makeDSIG" THEN "makeDSIG" ELSE "packSFNT"
    /\ UNCHANGED <<args, ret, glyfVars, font, tableOrder, compData, collVars, scriptVars>>

\* makeDSIG between defaultSFNTTestData and packSFNT
MakeDSIG ==
    /\ pc = "makeDSIG"
    /\ LET data == Zeros(4)
           moved == [k \in 1..Len(directory) |->
                        [directory[k] EXCEPT !.offset = @ + sfntDirectoryEntrySize]]
           entry == CHOOSE e \in {moved[k] : k \in 1..Len(moved)} :
                        \A k \in 1..Len(moved) : moved[k].offset <= e.offset
           end == entry.offset + entry.length
       IN /\ header' = [header EXCEPT !.numTables = @ + 1]
          /\ tableData' = Append(tableData, [tag |-> Tag_DSIG, data |-> data])
          /\ directory' = Append(moved, [tag |-> Tag_DSIG,
                                         offset |-> end + calcPaddingLength(end),
                                         length |-> 4,
                                         checksum |-> calcTableChecksum(Tag_DSIG, data)])
    /\ pc' = "packSFNT"
    /\ UNCHANGED <<args, ret, glyfVars, font, tableOrder, compData, collVars, scriptVars>>

\* sorted(directory) on (offset, tag)
RECURSIVE SortedByOffset(_)
SortedByOffset(s) ==
    IF s = <<>> THEN <<>>
    ELSE LET rest == SortedByOffset(SubSeq(s, 1, Len(s) - 1))
             e == s[Len(s)]
             above == {k \in 1..Len(rest) :
                          \/ e.offset < rest[k].offset
                          \/ e.offset = rest[k].offset /\ TagLess(e.tag, rest[k].tag)}
             at == IF above = {} THEN Len(rest) ELSE SetMin(above) - 1
         IN SubSeq(rest, 1, at) \o <<e>> \o SubSeq(rest, at + 1, Len(rest))

\* tableData[tag]
sfntTableOf(tables, t) == tables[CHOOSE k \in 1..Len(tables) : tables[k].tag = t].data

\* packSFNT(header, directory, tableData, flavor=flavor): flavor is compared
\* with "cff"
PackSFNT ==
    /\ pc = "packSFNT"
    /\ LET f == IF args.flavor = "cff" THEN "OTTO" ELSE "\\000\\001\\000\\000"
           tables == calcHeadCheckSumAdjustmentSFNT(directory, tableData, f)
           range == getSearchRange(Len(directory), 16)
           h == [header EXCEPT !.sfntVersion = f,
                               !.searchRange = range.searchRange,
                               !.entrySelector = range.entrySelector,
                               !.rangeShift = range.rangeShift]
           entryOrder == SortedByTag(directory)
           dataOrder == SortedByOffset(directory)
           sfntData == packSFNTHeader(h)
                       \o Flatten([k \in 1..Len(entryOrder) |-> packSFNTEntry(entryOrder[k])])
                       \o Flatten([k \in 1..Len(dataOrder) |->
                                      padData(sfntTableOf(tables, dataOrder[k].tag))])
       IN /\ tableData' = tables
          /\ header' = h
          /\ ret' = Ok(sfntData)
    /\ pc' = "done"
    /\ UNCHANGED <<args, glyfVars, font, tableOrder, compData, directory, collVars, scriptVars>>

NextValidSFNT ==
    \/ DefaultSFNTTestData
    \/ MakeDSIG
    \/ PackSFNT

SpecValidSFNT == InitValidSFNT /\ [][NextValidSFNT]_vars

-----------------------------------------------------------------------------
(* Claims about makeValidSFNT and makeDSIG. *)

\* the table tags of a source font, with DSIG for makeDSIG
ExpectedTags(source) ==
    {source[k].tag : k \in 1..Len(source)}
    \cup (IF args.op = "makeDSIG" THEN {Tag_DSIG} ELSE {})

\* the tags of the directory of the packed font
PackedTags(data) ==
    LET numTables == data[5] * 256 + data[6]
    IN {SubSeq(data, 12 + 16 * (k - 1) + 1, 12 + 16 * (k - 1) + 4) : k \in 1..numTables}

(* C28 as claimed: makeValidSFNT and makeDSIG called with flavor "CFF"      *)
(* (their default) produce a CFF-flavored SFNT, an sfntVersion of 'OTTO'    *)
(* with the table directory and table data of the CFF source font; called   *)
(* with flavor "TTF" they produce sfntVersion 0x00010000 with the tables of *)
(* the TrueType source font.                                                *)
C28_FlavorOfSFNT ==
    (pc = "done" /\ args.op \in {"makeValidSFNT", "makeDSIG"}) =>
        /\ ret.ok
        /\ args.flavor = "CFF" =>
              /\ SubSeq(ret.val, 1, 4) = <<79, 84, 84, 79>>
              /\ PackedTags(ret.val) = ExpectedTags(args.cff)
              /\ \A k \in 1..Len(args.cff) :
                    Len(sfntTableOf(tableData, args.cff[k].tag)) = Len(args.cff[k].origData)
        /\ args.flavor = "TTF" =>
              /\ SubSeq(ret.val, 1, 4) = <<0, 1, 0, 0>>
              /\ PackedTags(ret.val) = ExpectedTags(args.ttf)
              /\ \A k \in 1..Len(args.ttf) :
                    Len(sfntTableOf(tableData, args.ttf[k].tag)) = Len(args.ttf[k].origData)

\* makeValidSFNT(): the font has sfntVersion 0x00010000 and the glyf, head,
\* hmtx and loca tables of the TrueType source font
C28_Witness ==
    /\ pc = "done"
    /\ args.op = "makeValidSFNT"
    /\ args.flavor = "CFF"
    /\ ret.ok
    /\ SubSeq(ret.val, 1, 4) = <<0, 1, 0, 0>>
    /\ PackedTags(ret.val) = {Tag_glyf, Tag_head, Tag_hmtx, Tag_loca}
    /\ Tag_CFF \notin PackedTags(ret.val)

\* makeDSIG(flavor="TTF"): the TrueType tables and DSIG behind them
C28_WitnessTTF ==
    /\ pc = "done"
    /\ args.op = "makeDSIG"
    /\ args.flavor = "TTF"
    /\ SubSeq(ret.val, 1, 4) = <<0, 1, 0, 0>>
    /\ PackedTags(ret.val) = {Tag_DSIG, Tag_glyf, Tag_head, Tag_hmtx, Tag_loca}
    /\ directory[5].offset = Len(ret.val) - 4

-----------------------------------------------------------------------------
(* The generators' registration of test cases: writeTest of                 *)
(* FormatTestCaseGenerator.py, AuthoringToolTestCaseGenerator.py and        *)
(* DecoderTestCaseGenerator.py, writeFileStructureTest of                   *)
(* UserAgentTestCaseGenerator.py and writeTestCollection of                 *)
(* DecoderTestCaseGenerator.py.  Each generator is a script of its own with *)
(* its own sets.  An identifier "group-name-001" is the sequence of its     *)
(* parts, a title "Title 001" likewise; a failed assertion ends the run.    *)

MaxTests == 3
MaxItems == 2

\* identifiers and titles of the calls, with and without a number at the end
IdentifierSamples == {<<1, 1>>, <<1, 1, 1>>, <<2, 1, 1>>}
TitleSamples == {<<1>>, <<1, 1>>, <<2>>}
DescriptionSamples == {1, 2}
Groups == {1, 2}

Generators == {"Format", "AuthoringTool", "Decoder", "UserAgent"}

InitGenerator ==
    /\ pc = "generator"
    /\ \E g \in Generators : args = [op |-> "generator", generator |-> g]
    /\ ret = NoRet
    /\ idleGlyf
    /\ idleSFNT
    /\ tableIndices = <<>>
    /\ collectionDirectory = <<>>
    /\ locaIndices = <<>>
    /\ fonts = <<>>
    /\ registeredIdentifiers = {}
    /\ registeredTitles = {}
    /\ registeredDescriptions = {}
    /\ testRegistry = [t \in Groups |-> <<>>]
    /\ files = {}
    /\ test_results = <<>>
    /\ line = 0

\* more test cases may be written
Running == pc = "generator" /\ Cardinality(registeredIdentifiers) < MaxTests

\* variant: only the identifier is looked up
duplicateOf_identifierOnly(identifier, title, description) ==
    IF identifier \in registeredIdentifiers THEN "Duplicate identifier!" ELSE ""

\* the three assertions at the head of writeTest; "" when they pass
duplicateOf(identifier, title, description) ==
    IF identifier \in registeredIdentifiers THEN "Duplicate identifier!"
    ELSE IF title \in registeredTitles THEN "Duplicate title!"
    ELSE IF description \in registeredDescriptions THEN "Duplicate description!"
    ELSE ""

\* identifier.split("-")[0]
tagOf(identifier) == Head(identifier)

\* a failed assertion: the exception leaves the script
Rejected == pc = "done" /\ ret = Raise("AssertionError")

\* writeTest(identifier, title, description, data, ...)
WriteTest ==
    /\ Running
    /\ args.generator \in {"Format", "AuthoringTool", "Decoder"}
    /\ \E identifier \in IdentifierSamples, title \in TitleSamples,
          description \in DescriptionSamples :
         /\ args' = [op |-> "writeTest", generator |-> args.generator,
                     identifier |-> identifier, title |-> title,
                     description |-> description]
         /\ IF duplicateOf(identifier, title, description) # ""
            THEN /\ pc' = "done"
                 /\ ret' = Raise("AssertionError")
                 /\ UNCHANGED genVars
            ELSE /\ registeredIdentifiers' = registeredIdentifiers \cup {identifier}
                 /\ registeredTitles' = registeredTitles \cup {title}
                 /\ registeredDescriptions' = registeredDescriptions \cup {description}
                 /\ files' = files \cup {<<identifier, "font">>}
                 /\ testRegistry' =
                       [testRegistry EXCEPT ![tagOf(identifier)] =
                           Append(@, [identifier |-> identifier, title |-> title,
                                      description |-> description])]
                 /\ UNCHANGED <<pc, ret>>
    /\ UNCHANGED <<glyfVars, sfntVars, collVars, test_results, line>>

\* writeFileStructureTest(identifier, title=..., assertion=..., data=...):
\* the font, the test page and the reference page are written
WriteFileStructureTest ==
    /\ Running
    /\ args.generator = "UserAgent"
    /\ \E identifier \in IdentifierSamples, title \in TitleSamples,
          assertion \in DescriptionSamples :
         /\ args' = [op |-> "writeFileStructureTest", generator |-> args.generator,
                     identifier |-> identifier, title |-> title,
                     description |-> assertion]
         /\ IF duplicateOf(identifier, title, assertion) # ""
            THEN /\ pc' = "done"
                 /\ ret' = Raise("AssertionError")
                 /\ UNCHANGED genVars
            ELSE /\ registeredIdentifiers' = registeredIdentifiers \cup {identifier}
                 /\ registeredTitles' = registeredTitles \cup {title}
                 /\ registeredDescriptions' = registeredDescriptions \cup {assertion}
                 /\ files' = files \cup {<<identifier, "font">>, <<identifier, "xht">>,
                                         <<identifier, "ref">>}
                 /\ testRegistry' =
                       [testRegistry EXCEPT ![tagOf(identifier)] =
                           Append(@, [identifier |-> identifier, title |-> title,
                                      description |-> assertion])]
                 /\ UNCHANGED <<pc, ret>>
    /\ UNCHANGED <<glyfVars, sfntVars, collVars, test_results, line>>

\* the items of a writeTestCollection call that are written: those in front
\* of the first one whose title or identifier is registered
collectionWritten(identifier, title, count) ==
    LET bad == {i \in 1..count : \/ title \o <<i>> \in registeredTitles
                                 \/ identifier \o <<i>> \in registeredIdentifiers}
    IN  IF bad = {} THEN count ELSE SetMin(bad) - 1

\* writeTestCollection(identifier, title, description, data): one test case
\* per element of data, all under the one description
WriteTestCollection ==
    /\ Running
    /\ args.generator = "Decoder"
    /\ \E identifier \in {<<1, 1>>, <<2, 1>>}, title \in {<<1>>, <<2>>},
          description \in DescriptionSamples, count \in 1..MaxItems :
         /\ args' = [op |-> "writeTestCollection", generator |-> args.generator,
                     identifier |-> identifier, title |-> title,
                     description |-> description, count |-> count]
         /\ IF description \in registeredDescriptions
            THEN /\ pc' = "done"
                 /\ ret' = Raise("AssertionError")
                 /\ UNCHANGED genVars
            ELSE LET written == collectionWritten(identifier, title, count)
                     item(i) == [identifier |-> identifier \o <<i>>, title |-> title \o <<i>>,
                                 description |-> description]
                 IN /\ registeredDescriptions' = registeredDescriptions \cup {description}
                    /\ registeredIdentifiers' =
                          registeredIdentifiers \cup {item(i).identifier : i \in 1..written}
                    /\ registeredTitles' =
                          registeredTitles \cup {item(i).title : i \in 1..written}
                    /\ files' = files \cup {<<item(i).identifier, "font">> : i \in 1..written}
                    /\ testRegistry' =
                          [testRegistry EXCEPT ![tagOf(identifier)] =
                              @ \o [i \in 1..written |-> item(i)]]
                    /\ IF written < count
                       THEN pc' = "done" /\ ret' = Raise("AssertionError")
                       ELSE UNCHANGED <<pc, ret>>
    /\ UNCHANGED <<glyfVars, sfntVars, collVars, test_results, line>>

NextGenerator ==
    \/ WriteTest
    \/ WriteFileStructureTest
    \/ WriteTestCollection

SpecGenerator == InitGenerator /\ [][NextGenerator]_vars

-----------------------------------------------------------------------------
(* Claims about the registration of test cases. *)

\* the registered test cases, group after group
RegisteredCases == testRegistry[1] \o testRegistry[2]

\* a sequence without its last element
Front(q) == SubSeq(q, 1, Len(q) - 1)

\* two test cases that one writeTestCollection call makes
SameCollection(a, b) ==
    /\ Front(a.identifier) = Front(b.identifier)
    /\ Front(a.title) = Front(b.title)
    /\ a.identifier[Len(a.identifier)] = a.title[Len(a.title)]
    /\ b.identifier[Len(b.identifier)] = b.title[Len(b.title)]

(* C29 as claimed: after any sequence of registration calls no two          *)
(* registered test cases share an identifier, a title or a description,     *)
(* and a call that repeats one of the three fails its assertion before it   *)
(* adds anything to the registered sets, writes a file or appends to        *)
(* testRegistry: a rejected call leaves the registries unchanged.           *)
C29_RegistrationUnique ==
    /\ [](pc \in {"generator", "done"} /\ args.op \in {"generator", "writeTest",
              "writeFileStructureTest", "writeTestCollection"} =>
            \A i, j \in 1..Len(RegisteredCases) :
               i # j => /\ RegisteredCases[i].identifier # RegisteredCases[j].identifier
                        /\ RegisteredCases[i].title # RegisteredCases[j].title
                        /\ RegisteredCases[i].description # RegisteredCases[j].description)
    /\ [][Rejected' => genVars' = genVars]_vars

(* C29 amended: no two registered test cases share an identifier or a       *)
(* title, and two share a description only as items of one                  *)
(* writeTestCollection call.  A rejected writeTest or                       *)
(* writeFileStructureTest call, and a writeTestCollection call whose        *)
(* description is a repeat, leave the registries unchanged; a               *)
(* writeTestCollection call rejected for an item's title or identifier has  *)
(* added its description and the items in front of that one, and nothing    *)
(* else.                                                                    *)
C29_RegistrationAmended ==
    /\ [](pc \in {"generator", "done"} /\ args.op \in {"generator", "writeTest",
              "writeFileStructureTest", "writeTestCollection"} =>
            /\ \A i, j \in 1..Len(RegisteredCases) :
                  i # j => /\ RegisteredCases[i].identifier # RegisteredCases[j].identifier
                           /\ RegisteredCases[i].title # RegisteredCases[j].title
                           /\ RegisteredCases[i].description = RegisteredCases[j].description
                                 => SameCollection(RegisteredCases[i], RegisteredCases[j])
            /\ registeredIdentifiers
                  = {RegisteredCases[i].identifier : i \in 1..Len(RegisteredCases)}
            /\ registeredTitles = {RegisteredCases[i].title : i \in 1..Len(RegisteredCases)}
            /\ files = {<<id, "font">> : id \in registeredIdentifiers}
                       \cup {f \in files : f[2] # "font"})
    /\ [][Rejected' =>
            \/ genVars' = genVars
            \/ /\ args'.op = "writeTestCollection"
               /\ args'.description \notin registeredDescriptions
               /\ registeredDescriptions' = registeredDescriptions \cup {args'.description}
               /\ \E written \in 0..(args'.count - 1) :
                     LET ids == {args'.identifier \o <<i>> : i \in 1..written}
                         titles == {args'.title \o <<i>> : i \in 1..written}
                     IN /\ registeredIdentifiers' = registeredIdentifiers \cup ids
                        /\ registeredTitles' = registeredTitles \cup titles
                        /\ files' = files \cup {<<id, "font">> : id \in ids}
                        /\ Len(testRegistry'[tagOf(args'.identifier)])
                              = Len(testRegistry[tagOf(args'.identifier)]) + written
                        /\ \/ args'.identifier \o <<written + 1>> \in registeredIdentifiers
                           \/ args'.title \o <<written + 1>> \in registeredTitles]_vars

\* writeTestCollection with two elements was rejected at the second one: the
\* first one is registered and written, and so is the description
C29_Witness ==
    /\ Rejected
    /\ args.op = "writeTestCollection"
    /\ args.count = 2
    /\ args.description \in registeredDescriptions
    /\ args.identifier \o <<1>> \in registeredIdentifiers
    /\ args.identifier \o <<2>> \notin registeredIdentifiers
    /\ <<args.identifier \o <<1>>, "font">> \in files
    /\ Len(RegisteredCases) = 2

\* two items of one collection are registered under one description
C29_WitnessShared ==
    /\ pc = "generator"
    /\ args.op = "writeTestCollection"
    /\ Len(RegisteredCases) = 2
    /\ RegisteredCases[1].description = RegisteredCases[2].description
    /\ RegisteredCases[1].identifier # RegisteredCases[2].identifier

\* a writeTest call that repeats a title was rejected
C29_WitnessRejected ==
    /\ Rejected
    /\ args.op = "writeTest"
    /\ args.identifier \notin registeredIdentifiers
    /\ args.title \in registeredTitles
    /\ Len(RegisteredCases) = 1

-----------------------------------------------------------------------------
(* src/verifier/reference.py: main.  args.expectations are the lines of     *)
(* Format/expectations.txt (identifier, links, expectation); a link is the  *)
(* document it points into and its fragment.  ret collects the per-file     *)
(* lines that are printed.                                                  *)

MaxLines == 3

Link(document, fragment) == [document |-> document, fragment |-> fragment]

\* the links of a line: into the WOFF2 specification, into a draft of it and
\* into the WOFF 1.0 specification (a URL with "/WOFF/")
LinkSamples ==
    {<<Link("WOFF2", 1)>>,
     <<Link("WOFF2", 1), Link("WOFF2", 2)>>,
     <<Link("WOFF", 1), Link("draft", 1)>>}

ExpectationLines ==
    {[identifier |-> i, links |-> l, expectation |-> e] :
        i \in {1}, l \in LinkSamples, e \in BOOLEAN}

InitVerifier ==
    /\ pc = "verifier"
    /\ \E n \in 1..MaxLines : \E lines \in [1..n -> ExpectationLines] :
         args = [op |-> "verifier",
                 expectations |-> [k \in 1..n |-> [lines[k] EXCEPT !.identifier = k]]]
    /\ ret = NoRet
    /\ idleGlyf
    /\ idleSFNT
    /\ tableIndices = <<>>
    /\ collectionDirectory = <<>>
    /\ locaIndices = <<>>
    /\ fonts = <<>>
    /\ idleScripts

\* ref: '#' and the fragment, with 'woff1:' in front for a link with '/WOFF/'
refOf(link) == [woff1 |-> link.document = "WOFF", fragment |-> link.fragment]

\* variant: the result of the fixture at hand is always stored
recordResult_overwrite(results, ref, passed) ==
    (ref :> passed) @@ results

\* a pass leaves a result that is there alone; anything else is stored
recordResult(results, ref, passed) ==
    IF passed /\ ref \in DOMAIN results THEN results
    ELSE (ref :> passed) @@ results

\* the loop over the links of a line
RECURSIVE recordLinks(_, _, _)
recordLinks(results, links, passed) ==
    IF links = <<>> THEN results
    ELSE recordLinks(recordResult(results, refOf(Head(links)), passed), Tail(links), passed)

\* one pass of the loop over the expectations: the fixture is copied and
\* decoded, the per-file line printed, the result recorded for each link
CheckFixture ==
    /\ pc = "verifier"
    /\ line < Len(args.expectations)
    /\ \E actual \in BOOLEAN :
         LET l == args.expectations[line + 1]
             passed == actual = l.expectation
         IN /\ files' = files \cup {<<l.identifier, "temp">>}
            /\ ret' = Ok(Append(ret.val, [identifier |-> l.identifier, links |-> l.links,
                                          passed |-> passed]))
            /\ test_results' = recordLinks(test_results, l.links, passed)
    /\ line' = line + 1
    /\ UNCHANGED <<pc, args, glyfVars, sfntVars, collVars, registeredIdentifiers,
                   registeredTitles, registeredDescriptions, testRegistry>>

\* the per-test results are printed
PerTestResults ==
    /\ pc = "verifier"
    /\ line = Len(args.expectations)
    /\ pc' = "done"
    /\ UNCHANGED <<args, ret, glyfVars, sfntVars, collVars, scriptVars>>

NextVerifier ==
    \/ CheckFixture
    \/ PerTestResults

SpecVerifier == InitVerifier /\ [][NextVerifier]_vars

-----------------------------------------------------------------------------
(* Claims about the verifier. *)

\* the per-file lines printed so far whose fixture is linked to an anchor
FixturesOf(ref) ==
    {k \in 1..Len(ret.val) :
        \E i \in 1..Len(ret.val[k].links) : refOf(ret.val[k].links[i]) = ref}

(* C30: in the per-test results an anchor is reported True if and only if   *)
(* every fixture linked to it, in any order of the expectations file,       *)
(* produced the expected decoder outcome; and once a mismatch has been      *)
(* recorded for an anchor, no later matching fixture turns its result back  *)
(* to True.                                                                 *)
C30_AnchorResults ==
    /\ [](pc = "done" /\ args.op = "verifier" =>
            /\ Len(ret.val) = Len(args.expectations)
            /\ DOMAIN test_results
                  = {r \in [woff1 : BOOLEAN, fragment : {1, 2}] : FixturesOf(r) # {}}
            /\ \A ref \in DOMAIN test_results :
                  test_results[ref] <=> \A k \in FixturesOf(ref) : ret.val[k].passed)
    /\ [][args.op = "verifier" =>
            \A ref \in DOMAIN test_results :
               ~test_results[ref] => ref \in DOMAIN test_results' /\ ~test_results'[ref]]_vars

\* three fixtures linked to #1 of which the second one failed: the result of
\* #1 is False after the third one passed, and woff1:#1 is not touched
C30_Witness ==
    /\ pc = "done"
    /\ args.op = "verifier"
    /\ Len(ret.val) = 3
    /\ ret.val[1].passed /\ ~ret.val[2].passed /\ ret.val[3].passed
    /\ FixturesOf([woff1 |-> FALSE, fragment |-> 1]) = {1, 2, 3}
    /\ ~test_results[[woff1 |-> FALSE, fragment |-> 1]]
    /\ [woff1 |-> TRUE, fragment |-> 1] \in DOMAIN test_results
    /\ test_results[[woff1 |-> TRUE, fragment |-> 1]]

====
